---- MODULE Spec2Model ----
(***************************************************************************)
(* Heritage Hunter: the data ingestion pipeline.                           *)
(*                                                                         *)
(* The sync orchestrator (cron GET /api/cron/sync, admin POST              *)
(* /api/admin/sync), the two fetchers, the per-city parsers, the           *)
(* normalizer and the three store tables (unclaimed_lands, sync_logs,      *)
(* data_sources).                                                          *)
(*                                                                         *)
(* City names are written in ASCII:                                        *)
(*   "taibei-shi"    the city of the Taipei dataset 134972  (U+53F0 ...)   *)
(*   "taibei-shi-t"  the same name in its traditional spelling (U+81FA ..) *)
(*   "xinbei-shi"    New Taipei                                            *)
(*   "jiayi-shi"     Chiayi city,   dataset 52344                          *)
(*   "jiayi-xian"    Chiayi county, dataset 133739                         *)
(*   "zhanghua-xian" Changhua county, dataset 28529                        *)
(* "Taipei" and "NewTaipei" are the romanized aliases of CITY_NAME_MAP.    *)
(***************************************************************************)
EXTENDS Integers, Sequences, FiniteSets, TLC

VARIABLES
    lands,          \* table unclaimed_lands: a set of rows
    sync_logs,      \* table sync_logs: a set of rows
    data_sources,   \* table data_sources: city -> row
    pc,             \* per invocation: where the handler stands
    req,            \* per invocation: the request and the process environment
    cities,         \* per invocation: the city list of the for loop
    idx,            \* per invocation: 1-based position of the loop in cities
    results,        \* per invocation: the results array
    response,       \* per invocation: the HTTP response
    sync,           \* per invocation: the locals of syncCityData / syncCity
    ops,            \* per invocation: per city, the requests issued (history)
    faults,         \* failures the environment has injected so far
    fin,            \* fetcher harness: the upstream behaviour handed to a fetcher
    fout            \* fetcher harness: what the fetcher call produced

vars == <<lands, sync_logs, data_sources, pc, req, cities, idx, results,
          response, sync, ops, faults, fin, fout>>

(***************************************************************************)
(* Bounds of the model.                                                    *)
(***************************************************************************)
\* rows served by the Taipei listing (more than one batch of 100)
TaipeiSize == 103
\* rows of each data.gov.tw CSV
GovSize == 3
\* failures (failing upstream, raised Error, store outage) the environment injects
MaxFaults == 1

(***************************************************************************)
(* JavaScript values.                                                      *)
(***************************************************************************)
\* undefined, for a string-valued field
NoStr == "<undefined>"
\* undefined, for a number-valued field
NoNum == -1

\* a value is falsy when it is undefined or the empty string
Falsy(s) == s = NoStr \/ s = ""

\* undefined, for a string held as a sequence of characters
NoChars == <<NoStr>>

\* a number-valued field: a number v, undefined, null or NaN.  Areas in
\* square metres are counted in thousandths, areas in ping in hundredths.
Num(v) == [kind |-> "number", v |-> v]

Undefined == [kind |-> "undefined", v |-> 0]

NullNum == [kind |-> "null", v |-> 0]

NaN == [kind |-> "NaN", v |-> 0]

\* !x for a number-valued field
FalsyNum(x) == x.kind # "number" \/ x.v = 0

\* a || b on strings
OrElse(a, b) == IF Falsy(a) THEN b ELSE a

\* String(error) of a thrown Error: "name: message", or the one of the two
\* that is not empty
ErrorString(e) ==
    IF e.message = "" THEN e.name
    ELSE IF e.name = "" THEN e.message ELSE e.name \o ": " \o e.message

\* error instanceof Error ? error.message : String(error)
ErrorMessage(e) == e.message

\* the Errors the network layer and the decoders raise
NetError == [name |-> "TypeError", message |-> "fetch failed"]
DecodeError == [name |-> "SyntaxError", message |-> "Unexpected end of JSON input"]
AbortError == [name |-> "AbortError", message |-> ""]
NoError == [name |-> "", message |-> ""]

\* Response.ok
HttpOk(status) == status >= 200 /\ status <= 299

\* String.prototype.toLowerCase on the format tags upstream uses
ToLowerCase(s) == IF s \in {"CSV", "Csv", "csv"} THEN "csv"
                  ELSE IF s \in {"JSON", "json"} THEN "json" ELSE s

(***************************************************************************)
(* Texts.  A tabular text is named by the dataset whose rows it holds and  *)
(* the number of data rows; hdr tells whether it has a header line. The    *)
(* empty string has no header and no rows.                                 *)
(***************************************************************************)
NoData == [ds |-> NoStr, n |-> 0, hdr |-> FALSE]
EmptyText == [ds |-> "", n |-> 0, hdr |-> FALSE]
TableText(ds, n) == [ds |-> ds, n |-> n, hdr |-> TRUE]

\* !data for a string: undefined or ""
NoText(t) == t = NoData \/ t = EmptyText

(***************************************************************************)
(* FetchResult and the fetchers.  A fetcher call is a function of the      *)
(* upstream's behaviour; it yields the FetchResult it returns (or the      *)
(* Error that escapes it) and the requests it made, in order.              *)
(***************************************************************************)
FetchOk(data, count) ==
    [success |-> TRUE, data |-> data, error |-> NoStr, recordCount |-> count]

FetchFail(msg) ==
    [success |-> FALSE, data |-> NoData, error |-> msg, recordCount |-> NoNum]

Returned(res, reqs) == [thrown |-> FALSE, err |-> NoError, res |-> res, reqs |-> reqs]

Thrown(e, reqs) == [thrown |-> TRUE, err |-> e, res |-> FetchFail(NoStr), reqs |-> reqs]

\* a try block without its catch: the Error escapes
NoCatch(out) == out

\* catch (error) { return { success: false, error: String(error) } }
CatchAll(out) ==
    IF out.thrown THEN Returned(FetchFail(ErrorString(out.err)), out.reqs) ELSE out

\* a comparison of the format tags that minds the case
IsCsvExact(r) == r.format = "csv" \/ r.resourceFormat = "csv"

\* meta.resources?.find(r => r.format?.toLowerCase() === 'csv' ||
\*                           r.resourceFormat?.toLowerCase() === 'csv')
IsCsvResource(r) == ToLowerCase(r.format) = "csv" \/ ToLowerCase(r.resourceFormat) = "csv"

NoResource == [format |-> NoStr, resourceFormat |-> NoStr, resourceDownloadUrl |-> NoStr]

FindCsvResource(meta) ==
    IF ~meta.hasResources THEN NoResource
    ELSE LET hits == {i \in 1..Len(meta.resources) : IsCsvResource(meta.resources[i])}
         IN IF hits = {} THEN NoResource
            ELSE meta.resources[CHOOSE i \in hits : \A j \in hits : i <= j]

MetaUrl(datasetId) == "https://data.gov.tw/api/v2/rest/dataset/" \o datasetId

\* Papa.parse(csvData, { header: true }).data.length
PapaRowCount(text) == text.n

\* the try block of fetchFromDataGov
DataGovBody(datasetId, up) ==
    LET r1 == <<MetaUrl(datasetId)>>
        csvResource == FindCsvResource(up.meta)
        r2 == Append(r1, csvResource.resourceDownloadUrl)
    IN IF up.meta.net = "throw" THEN Thrown(up.meta.err, r1)
       ELSE IF ~HttpOk(up.meta.status)
       THEN Returned(FetchFail("Failed to fetch metadata: " \o ToString(up.meta.status)), r1)
       ELSE IF up.meta.decode = "throw" THEN Thrown(up.meta.err, r1)
       ELSE IF Falsy(csvResource.resourceDownloadUrl)
       THEN Returned(FetchFail("No CSV resource found in dataset"), r1)
       ELSE IF up.csv.net = "throw" THEN Thrown(up.csv.err, r2)
       ELSE IF ~HttpOk(up.csv.status)
       THEN Returned(FetchFail("Failed to fetch CSV: " \o ToString(up.csv.status)), r2)
       ELSE IF up.csv.decode = "throw" THEN Thrown(up.csv.err, r2)
       ELSE Returned(FetchOk(up.csv.text, PapaRowCount(up.csv.text)), r2)

fetchFromDataGov(datasetId, up) == CatchAll(DataGovBody(datasetId, up))

\* the page size and the safety limit of fetchFromTaipei
limit == 1000
SafetyLimit == 100000

\* what the listing answers to the k-th request of a call
PageResp(up, k) == IF k <= Len(up.first) THEN up.first[k] ELSE up.rest

\* json.result?.results || []  (its length)
RecordsLength(page) == IF page.hasResults THEN page.count ELSE 0

\* the while (true) loop of fetchFromTaipei: k-th request, offset, allRecords.length
RECURSIVE TaipeiLoop(_, _, _, _, _, _)
TaipeiLoop(datasetId, up, k, offset, all, reqs) ==
    LET page == PageResp(up, k)
        rq == Append(reqs, offset)
        n == RecordsLength(page)
    IN IF page.net = "throw" THEN Thrown(page.err, rq)
       ELSE IF ~HttpOk(page.status)
       THEN Returned(FetchFail("Failed to fetch: " \o ToString(page.status)), rq)
       ELSE IF page.decode = "throw" THEN Thrown(page.err, rq)
       ELSE IF n = 0 THEN Returned(FetchOk(TableText(datasetId, all), all), rq)
       ELSE IF all + n > SafetyLimit
       THEN Returned(FetchOk(TableText(datasetId, all + n), all + n), rq)
       ELSE IF k > Len(up.first)
       THEN \* the listing repeats this page: the turns up to the safety limit
            LET m == (SafetyLimit - all) \div n + 1
            IN Returned(FetchOk(TableText(datasetId, all + m * n), all + m * n),
                        reqs \o [j \in 1..m |-> offset + (j - 1) * limit])
       ELSE TaipeiLoop(datasetId, up, k + 1, offset + limit, all + n, rq)

\* a fetch of the first page alone
TaipeiFirstPage(datasetId, up) ==
    LET n == RecordsLength(PageResp(up, 1))
    IN Returned(FetchOk(TableText(datasetId, n), n), <<0>>)

\* a fetch that hands on whatever the loop collected
TaipeiUnchecked(datasetId, up) == TaipeiLoop(datasetId, up, 1, 0, 0, <<>>)

\* the try block of fetchFromTaipei: the loop, then the check for no records
TaipeiBody(datasetId, up) ==
    LET out == TaipeiLoop(datasetId, up, 1, 0, 0, <<>>)
    IN IF ~out.thrown /\ out.res.success /\ out.res.recordCount = 0
       THEN Returned(FetchFail("No records found"), out.reqs)
       ELSE out

fetchFromTaipei(datasetId, up) == CatchAll(TaipeiBody(datasetId, up))

(***************************************************************************)
(* Upstream data.  A raw row carries the columns the three parsers read:   *)
(*   ownerFull  the owner-name column of the Taipei and Changhua feeds     *)
(*   owner, name  the two owner-name columns of the Chiayi feeds           *)
(*   zone       the district column of the Taipei feed                     *)
(*   region, town  the district columns of the Chiayi and Changhua feeds   *)
(*   landNo     the land-number column                                     *)
(*   sub        the sub-section column of the Chiayi feeds                 *)
(* A column the row lacks is NoStr; an empty cell is "".                   *)
(***************************************************************************)
\* the area columns hold their text as a sequence of characters
BlankRow == [ownerFull |-> NoStr, owner |-> NoStr, name |-> NoStr, zone |-> NoStr,
             region |-> NoStr, town |-> NoStr, landNo |-> NoStr, sub |-> NoStr,
             area |-> NoChars, area2 |-> NoChars]

\* row k of the Taipei listing (dataset 134972)
TaipeiRow(k) ==
    IF k = 2 THEN [BlankRow EXCEPT !.ownerFull = "", !.zone = "daan-qu", !.landNo = ""]
    ELSE IF k = 4 THEN [BlankRow EXCEPT !.ownerFull = " wang  o ", !.zone = "daan-qu", !.landNo = ""]
    ELSE IF k = 5 THEN [BlankRow EXCEPT !.ownerFull = "", !.zone = "", !.landNo = "5"]
    ELSE IF k = TaipeiSize
    THEN [BlankRow EXCEPT !.ownerFull = "heir", !.zone = "zhongzheng-qu", !.landNo = "1"]
    ELSE [BlankRow EXCEPT !.ownerFull = "wang", !.zone = "zhongzheng-qu", !.landNo = ToString(k)]

\* row k of the Chiayi city CSV (dataset 52344)
ChiayiCityRow(k) ==
    IF k = 1 THEN [BlankRow EXCEPT !.owner = "lin", !.region = "dong-qu", !.landNo = "10"]
    ELSE IF k = 2 THEN [BlankRow EXCEPT !.name = "chen", !.town = "xi-qu", !.landNo = "", !.sub = "7"]
    ELSE [BlankRow EXCEPT !.owner = "lin", !.region = "dong-qu", !.landNo = ToString(10 + k)]

\* row k of the Chiayi county CSV (dataset 133739)
ChiayiCountyRow(k) ==
    IF k = 1 THEN [BlankRow EXCEPT !.owner = "tsai", !.region = "dong-qu", !.landNo = "10"]
    ELSE IF k = 2 THEN [BlankRow EXCEPT !.owner = "", !.name = "", !.landNo = ""]
    ELSE [BlankRow EXCEPT !.name = "tsai", !.town = "minxiong-xiang", !.landNo = ToString(20 + k)]

\* row k of the Changhua CSV (dataset 28529)
ChanghuaRow(k) ==
    IF k = 1 THEN [BlankRow EXCEPT !.ownerFull = "hsu", !.town = "zhanghua-shi", !.landNo = "31"]
    ELSE IF k = 2 THEN [BlankRow EXCEPT !.ownerFull = "hsu", !.town = "", !.landNo = ""]
    ELSE [BlankRow EXCEPT !.ownerFull = "", !.town = "lugang-zhen", !.landNo = ToString(30 + k)]

UpstreamRow(ds, k) ==
    CASE ds = "134972" -> TaipeiRow(k)
      [] ds = "52344" -> ChiayiCityRow(k)
      [] ds = "133739" -> ChiayiCountyRow(k)
      [] ds = "28529" -> ChanghuaRow(k)
      [] OTHER -> BlankRow

\* Papa.parse(csvData, { header: true, skipEmptyLines: true }).data
PapaParse(text) == [k \in 1..text.n |-> UpstreamRow(text.ds, k)]

(***************************************************************************)
(* Parsers (AbstractParser and its three subclasses).                      *)
(***************************************************************************)
\* name.trim().replace(/\s+/g, '') on the owner names upstream uses
StripSpaces(s) ==
    CASE s = " wang  o " -> "wango"
      [] s = "  " -> ""
      [] OTHER -> s

\* AbstractParser.cleanOwnerName
cleanOwnerName(name) == IF Falsy(name) THEN NoStr ELSE StripSpaces(name)

\* the scan of parseFloat from position k of the text s: blanks, a sign,
\* digits, a point and digits; a holds the sign, the value read so far in
\* thousandths, the weight of the next decimal and whether a digit was read.
\* The scan stops at the first character that does not continue the number.
RECURSIVE Scan(_, _, _, _)
Scan(s, k, phase, a) ==
    IF k <= Len(s) /\ phase = "blank" /\ s[k] = " " THEN Scan(s, k + 1, "blank", a)
    ELSE IF k <= Len(s) /\ phase = "blank" /\ s[k] \in {"+", "-"}
    THEN Scan(s, k + 1, "int", [a EXCEPT !.neg = (s[k] = "-")])
    ELSE IF k <= Len(s) /\ phase \in {"blank", "int"} /\ s[k] = "."
    THEN Scan(s, k + 1, "frac", a)
    ELSE IF k <= Len(s) /\ s[k] \in {"0", "1", "2", "3", "4", "5", "6", "7", "8", "9"}
    THEN LET d == CHOOSE n \in 0..9 : ToString(n) = s[k]
         IN IF phase = "frac"
            THEN Scan(s, k + 1, "frac", [a EXCEPT !.v = @ + d * a.unit,
                                                  !.unit = @ \div 10, !.seen = TRUE])
            ELSE Scan(s, k + 1, "int", [a EXCEPT !.v = @ * 10 + d * 1000, !.seen = TRUE])
    ELSE IF ~a.seen THEN NaN
    ELSE Num(IF a.neg THEN 0 - a.v ELSE a.v)

\* parseFloat, to three decimals
parseFloat(s) == Scan(s, 1, "blank", [neg |-> FALSE, v |-> 0, unit |-> 100, seen |-> FALSE])

\* AbstractParser.parseArea
parseArea(areaStr) ==
    IF areaStr = NoChars \/ areaStr = <<>> THEN Undefined
    ELSE LET num == parseFloat(SelectSeq(areaStr, LAMBDA c : c # ","))
         IN IF num.kind = "NaN" THEN Undefined ELSE num

\* a conversion that cuts the ping value after two decimals
m2ToPingCut(m2) ==
    Num(((m2.v * 100) \div 330579) * 100 + (((m2.v * 100) % 330579) * 100) \div 330579)

\* AbstractParser.m2ToPing: Number((m2 / 3.30579).toFixed(2)), in hundredths
\* of a ping from thousandths of a square metre: m2 * 10000 / 330579 rounded
\* to the nearest integer (330579 is odd, so no quotient is half way),
\* divided in two steps of 100 to stay within 32 bits
m2ToPing(m2) ==
    LET n == (IF m2.v >= 0 THEN m2.v ELSE 0 - m2.v) * 100
        r == ((n % 330579) * 100) % 330579
        q == (n \div 330579) * 100 + ((n % 330579) * 100) \div 330579
    IN Num(IF m2.v >= 0 THEN q + (IF 2 * r > 330579 THEN 1 ELSE 0)
           ELSE 0 - (q + (IF 2 * r > 330579 THEN 1 ELSE 0)))

\* areaM2 ? this.m2ToPing(areaM2) : undefined
PingOf(areaM2) == IF FalsyNum(areaM2) THEN Undefined ELSE m2ToPing(areaM2)

\* `unknown-${index}`
Placeholder(index) == "unknown-" \o ToString(index)

RawLand(city, district, landNumber, ownerName, areaM2) ==
    [sourceCity |-> city, district |-> district, landNumber |-> landNumber,
     ownerName |-> ownerName, areaM2 |-> areaM2, areaPing |-> PingOf(areaM2)]

\* a filter that lets every row through
KeepAll(row) == TRUE

TaipeiKeep(row) == ~Falsy(row.ownerFull) \/ ~Falsy(row.landNo)

TaipeiRecord(row, index) ==
    RawLand("taibei-shi", OrElse(row.zone, "unknown-district"),
            OrElse(row.landNo, Placeholder(index)), cleanOwnerName(row.ownerFull),
            parseArea(row.area))

\* result.data.filter(...).map((row, index) => ...); index counts from 0
TaipeiRows(rows) ==
    LET kept == SelectSeq(rows, TaipeiKeep)
    IN [i \in 1..Len(kept) |-> TaipeiRecord(kept[i], i - 1)]

TaipeiParse(text) == TaipeiRows(PapaParse(text))

\* ChiayiParser's cityName after new ChiayiParser(isCounty)
ChiayiCityName(isCounty) == IF isCounty THEN "jiayi-xian" ELSE "jiayi-shi"

ChiayiKeep(row) == ~Falsy(row.owner) \/ ~Falsy(row.name) \/ ~Falsy(row.landNo)

ChiayiLandNumber(row, index) ==
    IF ~Falsy(row.landNo) THEN row.landNo
    ELSE IF ~Falsy(row.sub) THEN row.sub ELSE Placeholder(index)

ChiayiRecord(isCounty, row, index) ==
    RawLand(ChiayiCityName(isCounty),
            OrElse(row.region, OrElse(row.town, "unknown-district")),
            ChiayiLandNumber(row, index),
            cleanOwnerName(OrElse(row.owner, row.name)),
            parseArea(IF row.area \in {NoChars, <<>>} THEN row.area2 ELSE row.area))

ChiayiRows(isCounty, rows) ==
    LET kept == SelectSeq(rows, ChiayiKeep)
    IN [i \in 1..Len(kept) |-> ChiayiRecord(isCounty, kept[i], i - 1)]

ChiayiParse(isCounty, text) == ChiayiRows(isCounty, PapaParse(text))

ChanghuaKeep(row) == ~Falsy(row.ownerFull) \/ ~Falsy(row.landNo)

ChanghuaRecord(row, index) ==
    RawLand("zhanghua-xian", OrElse(row.town, "unknown-district"),
            OrElse(row.landNo, Placeholder(index)), cleanOwnerName(row.ownerFull),
            parseArea(row.area))

ChanghuaRows(rows) ==
    LET kept == SelectSeq(rows, ChanghuaKeep)
    IN [i \in 1..Len(kept) |-> ChanghuaRecord(kept[i], i - 1)]

ChanghuaParse(text) == ChanghuaRows(PapaParse(text))

(***************************************************************************)
(* Normalizer.                                                             *)
(***************************************************************************)
Null == "<null>"

\* a || null
OrNull(a) == IF Falsy(a) THEN Null ELSE a

\* a normalizer without its city table
CityAsIs(city) == city

\* CITY_NAME_MAP[city] || city
NormalizeCity(city) ==
    CASE city \in {"taibei-shi", "taibei-shi-t", "Taipei"} -> "taibei-shi"
      [] city \in {"xinbei-shi", "NewTaipei"} -> "xinbei-shi"
      [] city = "jiayi-shi" -> "jiayi-shi"
      [] city = "jiayi-xian" -> "jiayi-xian"
      [] city = "zhanghua-xian" -> "zhanghua-xian"
      [] OTHER -> city

\* { lat, lng } in ten-thousandths of a degree
Point(lat, lng) == [kind |-> "point", lat |-> lat, lng |-> lng]

\* null, for coordinates
NullPoint == [kind |-> "null", lat |-> 0, lng |-> 0]

DISTRICT_COORDS ==
    [d \in {"zhongzheng-qu", "datong-qu", "zhongshan-qu", "songshan-qu", "daan-qu",
            "wanhua-qu", "xinyi-qu", "shilin-qu", "beitou-qu", "neihu-qu", "nangang-qu",
            "wenshan-qu", "dong-qu", "xi-qu", "zhanghua-shi", "yuanlin-shi",
            "lugang-zhen"} |->
        CASE d = "zhongzheng-qu" -> Point(250324, 1215198)
          [] d = "datong-qu" -> Point(250656, 1215130)
          [] d = "zhongshan-qu" -> Point(250648, 1215332)
          [] d = "songshan-qu" -> Point(250607, 1215579)
          [] d = "daan-qu" -> Point(250268, 1215435)
          [] d = "wanhua-qu" -> Point(250319, 1214970)
          [] d = "xinyi-qu" -> Point(250306, 1215675)
          [] d = "shilin-qu" -> Point(250929, 1215198)
          [] d = "beitou-qu" -> Point(251320, 1215010)
          [] d = "neihu-qu" -> Point(250697, 1215883)
          [] d = "nangang-qu" -> Point(250547, 1216069)
          [] d = "wenshan-qu" -> Point(249984, 1215706)
          [] d = "dong-qu" -> Point(234870, 1204580)
          [] d = "xi-qu" -> Point(234750, 1204310)
          [] d = "zhanghua-shi" -> Point(240815, 1205382)
          [] d = "yuanlin-shi" -> Point(239588, 1205742)
          [] d = "lugang-zhen" -> Point(240568, 1204356)]

\* district.replace(/^(...)/, ''): a leading city name is removed from the
\* district names that carry one
cleanDistrict(district) ==
    LET names == {"taibei-shi", "taibei-shi-t", "xinbei-shi", "jiayi-shi", "jiayi-xian",
                  "zhanghua-xian"}
        rests == DOMAIN DISTRICT_COORDS \cup {"banqiao-qu", "beigang-zhen", ""}
        cut == {r \in rests : \E n \in names : district = n \o r}
    IN IF cut = {} THEN district ELSE CHOOSE r \in cut : TRUE

getCoordinatesForDistrict(city, district) ==
    LET cityCenters ==
            [c \in {"taibei-shi", "jiayi-shi", "jiayi-xian", "zhanghua-xian"} |->
                CASE c = "taibei-shi" -> Point(250330, 1215654)
                  [] c = "jiayi-shi" -> Point(234801, 1204491)
                  [] c = "jiayi-xian" -> Point(234518, 1202555)
                  [] c = "zhanghua-xian" -> Point(240518, 1205161)]
    IN IF district \in DOMAIN DISTRICT_COORDS THEN DISTRICT_COORDS[district]
       ELSE IF cleanDistrict(district) \in DOMAIN DISTRICT_COORDS
       THEN DISTRICT_COORDS[cleanDistrict(district)]
       ELSE IF city \in DOMAIN cityCenters THEN cityCenters[city]
       ELSE NullPoint

NormalizedLand(data, sourceUrl) ==
    [sourceCity |-> NormalizeCity(data.sourceCity), district |-> data.district,
     landNumber |-> data.landNumber, ownerName |-> OrNull(data.ownerName),
     areaM2 |-> IF FalsyNum(data.areaM2) THEN NullNum ELSE data.areaM2,
     areaPing |-> IF ~FalsyNum(data.areaPing) THEN data.areaPing
                  ELSE IF ~FalsyNum(data.areaM2) THEN m2ToPing(data.areaM2)
                  ELSE NullNum,
     coordinates |-> getCoordinatesForDistrict(NormalizeCity(data.sourceCity),
                                               data.district),
     sourceUrl |-> OrNull(sourceUrl)]

normalizeData(rawData, sourceUrl) ==
    [i \in 1..Len(rawData) |-> NormalizedLand(rawData[i], sourceUrl)]

(***************************************************************************)
(* The store: table unclaimed_lands with UNIQUE(source_city, district,     *)
(* land_number), and upsert with onConflict on those columns.              *)
(***************************************************************************)
\* batch.map(land => ({ source_city: land.sourceCity, ... }))
DbRecord(land) ==
    [source_city |-> land.sourceCity, district |-> land.district,
     land_number |-> land.landNumber, owner_name |-> land.ownerName,
     source_url |-> land.sourceUrl]

ConflictKey(r) == <<r.source_city, r.district, r.land_number>>

Keys(table) == {ConflictKey(row) : row \in table}

\* a row of unclaimed_lands: its id and a record's columns
RowOf(id, r) ==
    [id |-> id, source_city |-> r.source_city, district |-> r.district,
     land_number |-> r.land_number, owner_name |-> r.owner_name,
     source_url |-> r.source_url]

StatementKeys(dbRecords) == {ConflictKey(dbRecords[i]) : i \in 1..Len(dbRecords)}

\* DEFAULT uuid_generate_v4(): a new row's id, unlike the id of any row the
\* table holds (written as the row's key and how many rows held that key)
NewId(table, held, key) ==
    [key |-> key,
     copy |-> IF key \in held THEN 1 + Cardinality({row \in table : ConflictKey(row) = key})
              ELSE 1]

\* a plain INSERT of every record into a table that lacks the constraint
InsertAll(table, dbRecords) ==
    LET held == Keys(table)
    IN table \cup {RowOf(NewId(table, held, ConflictKey(dbRecords[i])), dbRecords[i]) :
                      i \in 1..Len(dbRecords)}

\* INSERT ... ON CONFLICT (source_city, district, land_number) DO UPDATE SET ...:
\* a record whose key a row holds overwrites that row's columns, any other
\* record becomes a new row
OnConflictUpdate(table, dbRecords) ==
    LET keys == StatementKeys(dbRecords)
        held == Keys(table)
        at(key) == CHOOSE i \in 1..Len(dbRecords) : ConflictKey(dbRecords[i]) = key
    IN {IF ConflictKey(row) \in keys
        THEN RowOf(row.id, dbRecords[at(ConflictKey(row))]) ELSE row : row \in table}
       \cup {RowOf(NewId(table, held, ConflictKey(dbRecords[i])), dbRecords[i]) :
                i \in {j \in 1..Len(dbRecords) : ConflictKey(dbRecords[j]) \notin held}}

\* two records of one statement under the same conflict key: the statement fails
\* (ON CONFLICT DO UPDATE cannot affect a row a second time)
HasDuplicateKey(dbRecords) ==
    Cardinality(StatementKeys(dbRecords)) < Len(dbRecords)

\* supabase.from('unclaimed_lands').insert(dbRecords).select() on a table
\* that lacks the constraint
PlainInsert(table, dbRecords, storeUp) ==
    IF ~storeUp THEN [error |-> TRUE, table |-> table, length |-> 0]
    ELSE [error |-> FALSE, table |-> InsertAll(table, dbRecords), length |-> Len(dbRecords)]

\* supabase.from('unclaimed_lands').upsert(dbRecords, { onConflict }).select()
\* storeUp: whether the store answers at all
Upsert(table, dbRecords, storeUp) ==
    IF ~storeUp \/ HasDuplicateKey(dbRecords)
    THEN [error |-> TRUE, table |-> table, length |-> 0]
    ELSE [error |-> FALSE, table |-> OnConflictUpdate(table, dbRecords),
          length |-> Len(dbRecords)]


(***************************************************************************)
(* Upstream behaviours.                                                    *)
(***************************************************************************)
\* a page of the Taipei listing holding count records
Page(count) == [net |-> "ok", status |-> 200, decode |-> "ok", err |-> NetError,
                hasResults |-> TRUE, count |-> count]

FailedPage(net, status, decode) ==
    [net |-> net, status |-> status, decode |-> decode,
     err |-> IF net = "throw" THEN NetError ELSE DecodeError,
     hasResults |-> FALSE, count |-> 0]

\* the listing serving a dataset of size rows, limit rows a page
RECURSIVE ListingPages(_)
ListingPages(size) ==
    IF size <= 0 THEN <<>>
    ELSE IF size <= limit THEN <<Page(size)>>
    ELSE <<Page(limit)>> \o ListingPages(size - limit)

Listing(size) == [first |-> ListingPages(size), rest |-> Page(0)]

Resource(format, resourceFormat, url) ==
    [format |-> format, resourceFormat |-> resourceFormat, resourceDownloadUrl |-> url]

MetaDoc(resources) ==
    [net |-> "ok", status |-> 200, decode |-> "ok", err |-> DecodeError,
     hasResources |-> TRUE, resources |-> resources]

FailedMeta(net, status, decode) ==
    [net |-> net, status |-> status, decode |-> decode,
     err |-> IF net = "throw" THEN NetError ELSE DecodeError,
     hasResources |-> FALSE, resources |-> <<>>]

CsvDoc(text) ==
    [net |-> "ok", status |-> 200, decode |-> "ok", err |-> DecodeError, text |-> text]

FailedCsv(net, status, decode) ==
    [net |-> net, status |-> status, decode |-> decode,
     err |-> IF net = "throw" THEN NetError ELSE DecodeError, text |-> NoData]

DownloadUrl(datasetId) == "https://data.gov.tw/download/" \o datasetId

\* data.gov.tw serving dataset datasetId as it should
GovServes(datasetId) ==
    [meta |-> MetaDoc(<<Resource("JSON", NoStr, "https://data.gov.tw/json"),
                        Resource("CSV", NoStr, DownloadUrl(datasetId))>>),
     csv |-> CsvDoc(TableText(datasetId, GovSize))]

\* the upstream of a city serving its dataset as it should
Healthy(city) ==
    CASE city = "taibei-shi" -> Listing(TaipeiSize)
      [] city = "jiayi-shi" -> GovServes("52344")
      [] city = "jiayi-xian" -> GovServes("133739")
      [] city = "zhanghua-xian" -> GovServes("28529")
      [] OTHER -> Listing(0)

\* the upstream of a city failing
Failing(city) ==
    CASE city = "taibei-shi" -> [first |-> <<FailedPage("ok", 503, "ok")>>, rest |-> Page(0)]
      [] city = "jiayi-shi" ->
            [meta |-> FailedMeta("ok", 404, "ok"), csv |-> FailedCsv("ok", 404, "ok")]
      [] city = "jiayi-xian" ->
            [meta |-> FailedMeta("throw", 0, "ok"), csv |-> FailedCsv("throw", 0, "ok")]
      [] city = "zhanghua-xian" ->
            [meta |-> GovServes("28529").meta, csv |-> CsvDoc(EmptyText)]
      [] OTHER -> Listing(0)

\* what the upstream of a city may do while a sync run fetches it; the
\* Taipei listing may also be empty
SyncUpstreams(city) ==
    {Healthy(city), Failing(city)}
    \cup (IF city = "taibei-shi" THEN {Listing(0)} ELSE {})

\* the failures a step injects
Cost(flags) == Cardinality({k \in DOMAIN flags : flags[k]})

(***************************************************************************)
(* The sync orchestrator: GET /api/cron/sync and POST /api/admin/sync.     *)
(***************************************************************************)
Runs == {"cron", "admin"}

\* const cities = ['...', '...', '...', '...']
DefaultCities == <<"taibei-shi", "jiayi-shi", "jiayi-xian", "zhanghua-xian">>

\* body.cities of the admin requests; NoBody when the body names no cities
NoBody == <<"<undefined>">>
AdminBodies ==
    {NoBody, <<>>, <<"taibei-shi", "taibei-shi">>, <<"nowhere", "jiayi-shi">>,
     <<"jiayi-xian", "nowhere", "zhanghua-xian">>}

\* body.cities || [...]
CitiesToSync(body) == IF body = NoBody THEN DefaultCities ELSE body

NoRequest == [auth |-> "none", secret |-> FALSE, production |-> FALSE,
              configured |-> FALSE, body |-> NoBody]

\* an entry of results; count is recordCount (cron), recordsAdded (admin,
\* whose recordsUpdated is always 0)
Result(city, success, count, error) ==
    [city |-> city, success |-> success, count |-> count, error |-> error]

NoResult == Result(NoStr, FALSE, 0, NoStr)

IdleSync == [data |-> NoData, i |-> 0, total |-> 0, result |-> NoResult, error |-> NoStr]

NoResponse == [status |-> 0, success |-> FALSE, error |-> NoStr, results |-> <<>>]

\* NextResponse.json({ error }, { status })
ErrorResponse(status, error) ==
    [status |-> status, success |-> FALSE, error |-> error, results |-> <<>>]

\* results.some((r) => r.success)
someSuccess(rs) == \E k \in 1..Len(rs) : rs[k].success

\* results.every((r) => r.success)
allSuccess(rs) == \A k \in 1..Len(rs) : rs[k].success

\* NextResponse.json({ success: allSuccess, ..., results })
SummaryResponse(rs) ==
    [status |-> 200, success |-> allSuccess(rs), error |-> NoStr, results |-> rs]

\* an id that the runs share
SharedId(r, n) == [run |-> "cron", n |-> n]

\* crypto.randomUUID(): one id per invocation and loop turn
LogId(r, n) == [run |-> r, n |-> n]

Never == [run |-> "never", n |-> 0]

\* the seed rows of data_sources
SeedSource == [last_synced_at |-> Never, record_count |-> 0]

\* supabase.from('sync_logs').insert({ id, source_city, status: 'running' })
LogRow(id, city) ==
    [id |-> id, source_city |-> city, status |-> "running", records_added |-> 0,
     error_message |-> Null, completed |-> FALSE, updates |-> 0]

InsertLogRow(table, id, city) == table \cup {LogRow(id, city)}

\* an update that writes the count and the completion time but not the status
TouchLogRow(table, id, count, status, message) ==
    {IF row.id = id
     THEN [row EXCEPT !.records_added = count, !.completed = TRUE,
                      !.updates = row.updates + 1]
     ELSE row : row \in table}

\* supabase.from('sync_logs').update({ completed_at, records_added, status,
\*                                     error_message }).eq('id', id)
UpdateLogRow(table, id, count, status, message) ==
    {IF row.id = id
     THEN [row EXCEPT !.status = status, !.records_added = count,
                      !.error_message = message, !.completed = TRUE,
                      !.updates = row.updates + 1]
     ELSE row : row \in table}

\* the update of the catch block: records_added is not among its columns
FailLogRow(table, id, message) ==
    {IF row.id = id
     THEN [row EXCEPT !.status = "failed", !.error_message = message,
                      !.completed = TRUE, !.updates = row.updates + 1]
     ELSE row : row \in table}

\* an update that writes the time of the sync and leaves the count
StampSourceRow(table, city, stamp, count) ==
    [c \in DOMAIN table |->
        IF c = city THEN [table[c] EXCEPT !.last_synced_at = stamp] ELSE table[c]]

\* supabase.from('data_sources').update({ last_synced_at, record_count }).eq('city', city)
UpdateSourceRow(table, city, stamp, count) ==
    [c \in DOMAIN table |->
        IF c = city THEN [last_synced_at |-> stamp, record_count |-> count] ELSE table[c]]

\* the switch of syncCityData / syncCity
KnownCity(city) == city \in {"taibei-shi", "jiayi-shi", "jiayi-xian", "zhanghua-xian"}

DatasetOf(city) ==
    CASE city = "taibei-shi" -> "134972"
      [] city = "jiayi-shi" -> "52344"
      [] city = "jiayi-xian" -> "133739"
      [] city = "zhanghua-xian" -> "28529"

Fetch(city, up) ==
    IF city = "taibei-shi" THEN fetchFromTaipei(DatasetOf(city), up)
    ELSE fetchFromDataGov(DatasetOf(city), up)

\* parser.parse(fetchResult.data) with the parser the switch constructed
Parse(city, text) ==
    CASE city = "taibei-shi" -> TaipeiParse(text)
      [] city = "jiayi-shi" -> ChiayiParse(FALSE, text)
      [] city = "jiayi-xian" -> ChiayiParse(FALSE, text)
      [] city = "zhanghua-xian" -> ChanghuaParse(text)

\* normalizeData(parser.parse(fetchResult.data), city)
NormalizedData(city, text) == normalizeData(Parse(city, text), city)

batchSize == 100

\* a slice that runs to the end of the data
BatchRest(normalizedData, i) ==
    [k \in 1..(Len(normalizedData) - i) |-> DbRecord(normalizedData[i + k])]

\* normalizedData.slice(i, i + batchSize).map(...)
Batch(normalizedData, i) ==
    LET hi == IF i + batchSize < Len(normalizedData) THEN i + batchSize
              ELSE Len(normalizedData)
    IN [k \in 1..(hi - i) |-> DbRecord(normalizedData[i + k])]

City(r) == cities[r][idx[r]]

\* an Error raised inside syncCityData after the fetch (parse, normalize)
ParseError == [name |-> "TypeError", message |-> "Cannot read properties of undefined"]

\* what one loop turn did so far: the network requests and upserts it issued,
\* the upserts that returned an error, the rows the other upserts returned,
\* how its fetch ended and with what error, whether an Error was raised after
\* the fetch
NoOps(city) == [city |-> city, requests |-> 0, upserts |-> 0, failed |-> 0,
                rows |-> 0, fetch |-> "none", fetchError |-> NoStr, raised |-> FALSE,
                exception |-> NoStr]

\* how a fetcher call ended, as syncCityData reads it
FetchOutcome(res) ==
    IF ~res.success THEN "failed" ELSE IF NoText(res.data) THEN "nodata" ELSE "ok"

\* a loop that reports only the cities that succeeded
pushIfSuccess(rs, result) == IF result.success THEN Append(rs, result) ELSE rs

\* results.push(result)
push(rs, result) == Append(rs, result)

\* the fetcher harness at rest
NoInput == [fetcher |-> "none", datasetId |-> NoStr]
NoOutcome == [called |-> FALSE, out |-> Returned(FetchFail(NoStr), <<>>)]

TypeOK ==
    /\ pc \in [Runs -> {"idle", "rejected", "fatal", "loop", "sync", "batch",
                        "report", "source", "catch", "done"}]
    /\ idx \in [Runs -> 1..5]
    /\ \A r \in Runs : Len(results[r]) <= 8

Init ==
    /\ lands = {}
    /\ sync_logs = {}
    /\ data_sources = [c \in {"taibei-shi", "jiayi-shi", "jiayi-xian", "zhanghua-xian"}
                          |-> SeedSource]
    /\ pc = [r \in Runs |-> "idle"]
    /\ req = [r \in Runs |-> NoRequest]
    /\ cities = [r \in Runs |-> <<>>]
    /\ idx = [r \in Runs |-> 1]
    /\ results = [r \in Runs |-> <<>>]
    /\ response = [r \in Runs |-> NoResponse]
    /\ sync = [r \in Runs |-> IdleSync]
    /\ ops = [r \in Runs |-> <<>>]
    /\ faults = 0
    /\ fin = NoInput
    /\ fout = NoOutcome

\* a gate that asks for the token only when a secret is configured
CronGateDev(q) ==
    IF q.secret /\ q.auth # "good" THEN ErrorResponse(401, "Unauthorized")
    ELSE IF ~q.configured THEN ErrorResponse(500, "Sync failed")
    ELSE NoResponse

\* a gate that reads the store configuration only
ConfigGate(r, q) ==
    IF ~q.configured
    THEN ErrorResponse(500, IF r = "cron" THEN "Sync failed" ELSE "Internal server error")
    ELSE NoResponse

\* the checks of GET /api/cron/sync before the loop
CronGate(q) ==
    IF q.secret /\ q.auth # "good" THEN ErrorResponse(401, "Unauthorized")
    ELSE IF ~q.secret /\ q.production
    THEN ErrorResponse(500, "Server misconfiguration: CRON_SECRET not set")
    ELSE IF ~q.configured THEN ErrorResponse(500, "Sync failed")
    ELSE NoResponse

\* the checks of POST /api/admin/sync before the loop
AdminGate(q) ==
    IF q.auth # "good" THEN ErrorResponse(401, "Unauthorized")
    ELSE IF ~q.configured THEN ErrorResponse(500, "Internal server error")
    ELSE NoResponse

Gate(r, q) == IF r = "cron" THEN CronGate(q) ELSE AdminGate(q)

Requests(r) ==
    IF r = "cron"
    THEN [auth : {"none", "good", "bad"}, secret : BOOLEAN, production : BOOLEAN,
          configured : BOOLEAN, body : {NoBody}]
    ELSE [auth : {"none", "good", "bad"}, secret : {FALSE}, production : {FALSE},
          configured : BOOLEAN, body : AdminBodies]

\* the handler up to the loop: authentication, configuration, the city list
Start(r) ==
    /\ pc[r] = "idle"
    /\ \E q \in Requests(r) :
        /\ req' = [req EXCEPT ![r] = q]
        /\ IF Gate(r, q) = NoResponse
           THEN /\ pc' = [pc EXCEPT ![r] = "loop"]
                /\ cities' = [cities EXCEPT ![r] =
                                 IF r = "cron" THEN DefaultCities ELSE CitiesToSync(q.body)]
                /\ UNCHANGED response
           ELSE /\ pc' = [pc EXCEPT ![r] =
                             IF Gate(r, q).error \in {"Sync failed", "Internal server error"}
                             THEN "fatal" ELSE "rejected"]
                /\ response' = [response EXCEPT ![r] = Gate(r, q)]
                /\ UNCHANGED cities
    /\ UNCHANGED <<lands, sync_logs, data_sources, idx, results, sync, ops, faults,
                   fin, fout>>

\* the head of a loop turn: a new log id, the 'running' row
InsertLog(r) ==
    /\ pc[r] = "loop"
    /\ idx[r] <= Len(cities[r])
    /\ sync_logs' = InsertLogRow(sync_logs, LogId(r, idx[r]), City(r))
    /\ ops' = [ops EXCEPT ![r] = Append(@, NoOps(City(r)))]
    /\ sync' = [sync EXCEPT ![r] = IdleSync]
    /\ pc' = [pc EXCEPT ![r] = "sync"]
    /\ req' = [req EXCEPT ![r] = NoRequest]
    /\ UNCHANGED <<lands, data_sources, cities, idx, results, response, faults, fin, fout>>

\* a switch whose default case reports an empty, successful sync
IgnoredCity(city) == Result(city, TRUE, 0, NoStr)

\* default: return { city, success: false, recordCount: 0, error: `Unknown city: ${city}` }
UnknownCity(city) == Result(city, FALSE, 0, "Unknown city: " \o city)

\* what syncCityData returns when it makes no upsert: unknown city, failed fetch,
\* no records
EarlyResult(city, fetched, normalizedData) ==
    IF ~KnownCity(city) THEN UnknownCity(city)
    ELSE IF ~fetched.res.success \/ NoText(fetched.res.data)
    THEN Result(city, FALSE, 0, OrElse(fetched.res.error, "Failed to fetch data"))
    ELSE Result(city, TRUE, 0, NoStr)

\* syncCityData up to the batch loop: the switch, the fetch, parse and normalize
SyncCity(r) ==
    /\ pc[r] = "sync"
    /\ \E up \in SyncUpstreams(City(r)), raise \in BOOLEAN :
        LET city == City(r)
            fetched == IF KnownCity(city) THEN Fetch(city, up) ELSE Returned(FetchFail(NoStr), <<>>)
            ok == KnownCity(city) /\ fetched.res.success /\ ~NoText(fetched.res.data)
            n == IF ok THEN Len(NormalizedData(city, fetched.res.data)) ELSE 0
        IN /\ faults + Cost(<<up # Healthy(city), raise>>) <= MaxFaults
           /\ faults' = faults + Cost(<<up # Healthy(city), raise>>)
           /\ ops' = [ops EXCEPT ![r] =
                         [@ EXCEPT ![Len(@)].requests = Len(fetched.reqs),
                                   ![Len(@)].fetch = IF KnownCity(city)
                                                     THEN FetchOutcome(fetched.res) ELSE "none",
                                   ![Len(@)].fetchError = fetched.res.error,
                                   ![Len(@)].raised = ok /\ raise,
                                   ![Len(@)].exception =
                                       IF ok /\ raise THEN ErrorMessage(ParseError)
                                       ELSE NoStr]]
           /\ IF ok /\ raise
              THEN /\ sync' = [sync EXCEPT ![r].error = ErrorMessage(ParseError)]
                   /\ pc' = [pc EXCEPT ![r] = "catch"]
              ELSE IF ok /\ n > 0
              THEN /\ sync' = [sync EXCEPT ![r].data = fetched.res.data]
                   /\ pc' = [pc EXCEPT ![r] = "batch"]
              ELSE /\ ~raise
                   /\ sync' = [sync EXCEPT ![r].result = EarlyResult(city, fetched, n)]
                   /\ pc' = [pc EXCEPT ![r] = "report"]
    /\ UNCHANGED <<lands, sync_logs, data_sources, req, cities, idx, results, response,
                   fin, fout>>

\* a count that starts over when a batch fails
CountedOrReset(total, done) == IF done.error THEN 0 ELSE total + done.length

\* if (error) { console.error(...) } else { totalRecords += data?.length || 0 }
Counted(total, done) == IF done.error THEN total ELSE total + done.length

\* one turn of the batch loop: slice, upsert, count
UpsertBatch(r) ==
    /\ pc[r] = "batch"
    /\ \E storeUp \in BOOLEAN :
        LET city == City(r)
            normalizedData == NormalizedData(city, sync[r].data)
            done == Upsert(lands, Batch(normalizedData, sync[r].i), storeUp)
            total == Counted(sync[r].total, done)
            next == sync[r].i + batchSize
        IN /\ faults + Cost(<<~storeUp>>) <= MaxFaults
           /\ faults' = faults + Cost(<<~storeUp>>)
           /\ lands' = done.table
           /\ ops' = [ops EXCEPT ![r] =
                         [@ EXCEPT ![Len(@)].upserts = @ + 1,
                                   ![Len(@)].failed = IF done.error THEN @ + 1 ELSE @,
                                   ![Len(@)].rows = @ + done.length]]
           /\ IF next < Len(normalizedData)
              THEN /\ sync' = [sync EXCEPT ![r].i = next, ![r].total = total]
                   /\ UNCHANGED pc
              ELSE /\ sync' = [sync EXCEPT ![r].i = next, ![r].total = total,
                                           ![r].result = Result(city, TRUE, total, NoStr)]
                   /\ pc' = [pc EXCEPT ![r] = "report"]
    /\ UNCHANGED <<sync_logs, data_sources, req, cities, idx, results, response, fin, fout>>

\* a loop that updates the data source whatever the result
AnyResult(result) == TRUE

\* a loop that goes on to the next city without the update of the data source
SkipSource(result) == FALSE

\* if (result.success)
ShouldUpdateSource(result) == result.success

\* results.push(result) and the update of the log row
Report(r) ==
    /\ pc[r] = "report"
    /\ LET result == sync[r].result
       IN /\ results' = [results EXCEPT ![r] = push(@, result)]
          /\ sync_logs' = UpdateLogRow(sync_logs, LogId(r, idx[r]), result.count,
                                       IF result.success THEN "completed" ELSE "failed",
                                       OrNull(result.error))
          /\ IF ShouldUpdateSource(result)
             THEN /\ pc' = [pc EXCEPT ![r] = "source"]
                  /\ UNCHANGED idx
             ELSE /\ pc' = [pc EXCEPT ![r] = "loop"]
                  /\ idx' = [idx EXCEPT ![r] = @ + 1]
    /\ UNCHANGED <<lands, data_sources, req, cities, response, sync, ops, faults, fin, fout>>

\* if (result.success) the update of the city's data_sources row
UpdateSource(r) ==
    /\ pc[r] = "source"
    /\ data_sources' = UpdateSourceRow(data_sources, City(r), LogId(r, idx[r]),
                                       sync[r].result.count)
    /\ pc' = [pc EXCEPT ![r] = "loop"]
    /\ idx' = [idx EXCEPT ![r] = @ + 1]
    /\ UNCHANGED <<lands, sync_logs, req, cities, results, response, sync, ops, faults,
                   fin, fout>>

\* the catch block of a loop turn
Catch(r) ==
    /\ pc[r] = "catch"
    /\ results' = [results EXCEPT ![r] = push(@, Result(City(r), FALSE, 0, sync[r].error))]
    /\ sync_logs' = FailLogRow(sync_logs, LogId(r, idx[r]), sync[r].error)
    /\ pc' = [pc EXCEPT ![r] = "loop"]
    /\ idx' = [idx EXCEPT ![r] = @ + 1]
    /\ UNCHANGED <<lands, data_sources, req, cities, response, sync, ops, faults, fin, fout>>

\* after the loop: allSuccess and the summary response
Respond(r) ==
    /\ pc[r] = "loop"
    /\ idx[r] > Len(cities[r])
    /\ response' = [response EXCEPT ![r] = SummaryResponse(results[r])]
    /\ pc' = [pc EXCEPT ![r] = "done"]
    /\ req' = [req EXCEPT ![r] = NoRequest]
    /\ UNCHANGED <<lands, sync_logs, data_sources, cities, idx, results, sync, ops, faults,
                   fin, fout>>

Next ==
    \E r \in Runs :
        \/ Start(r)
        \/ InsertLog(r)
        \/ SyncCity(r)
        \/ UpsertBatch(r)
        \/ Report(r)
        \/ UpdateSource(r)
        \/ Catch(r)
        \/ Respond(r)

Spec == Init /\ [][Next]_vars

(***************************************************************************)
(* Properties of the orchestrator.                                         *)
(***************************************************************************)
\* the loop turns whose result has been pushed
Reported(r) == 1..Len(results[r])

\* C1: whatever the city list and whichever cities fail, the loop takes the
\* cities in list order and pushes exactly one entry per city; an entry is
\* success=true exactly when that city's own fetch succeeded and its own
\* processing raised nothing, whatever happened to the cities before it; the
\* summary carries one entry per city of the list.
C1_OneEntryPerCity ==
    \A r \in Runs :
        /\ Len(results[r]) <= Len(cities[r])
        /\ Len(ops[r]) <= Len(cities[r])
        /\ Len(results[r]) \in {Len(ops[r]), Len(ops[r]) - 1}
        /\ \A k \in 1..Len(ops[r]) : ops[r][k].city = cities[r][k]
        /\ \A k \in Reported(r) :
            /\ results[r][k].city = cities[r][k]
            /\ results[r][k].success = (ops[r][k].fetch = "ok" /\ ~ops[r][k].raised)
            /\ KnownCity(cities[r][k]) => ops[r][k].requests >= 1
        /\ pc[r] = "done" =>
            /\ Len(response[r].results) = Len(cities[r])
            /\ response[r].results = results[r]

\* C1 witness: a run of at least three cities is done, its second city
\* failed its fetch, its first and third cities are success=true and the
\* run-level flag is false.
C1_Witness ==
    \E r \in Runs :
        /\ pc[r] = "done"
        /\ Len(results[r]) >= 3
        /\ ops[r][2].fetch = "failed"
        /\ ~results[r][2].success
        /\ results[r][1].success
        /\ results[r][3].success
        /\ ~response[r].success

\* the rows of sync_logs that loop turn n of run r created
LogRows(r, n) == {row \in sync_logs : row.id = LogId(r, n)}

\* the loop turns of run r that have started
Turns(r) == 1..Len(ops[r])

C2_Rows ==
    \A r \in Runs :
        /\ \A row \in sync_logs : row.id.run = r => row.id.n \in Turns(r)
        /\ \A n \in Turns(r) :
            /\ Cardinality(LogRows(r, n)) = 1
            /\ \A row \in LogRows(r, n) :
                /\ row.source_city = cities[r][n]
                /\ row.updates <= 1
                /\ (row.status = "running") = (row.updates = 0)
                /\ row.status \in {"running", "completed", "failed"}
                /\ (row.updates = 1) = (n \in Reported(r))
                /\ row.status = "running" => n = idx[r] /\ pc[r] # "loop"
        /\ pc[r] = "loop" => Len(ops[r]) = idx[r] - 1
        /\ pc[r] \in {"sync", "batch", "report", "source", "catch"} => Len(ops[r]) = idx[r]
        /\ pc[r] = "done" =>
            /\ Len(ops[r]) = Len(cities[r])
            /\ \A row \in sync_logs : row.id.run = r => row.status # "running"

\* a step never adds a second row for a turn, never issues a fetch request
\* for a turn without its row, and never takes a row back to 'running'
C2_Step ==
    /\ \A row \in sync_logs : \E new \in sync_logs' :
        /\ new.id = row.id
        /\ new.updates >= row.updates
        /\ row.status # "running" => new.status = row.status
    /\ \A r \in Runs : \A n \in 1..Len(ops'[r]) :
        ops'[r][n].requests > 0 => \E row \in sync_logs : row.id = LogId(r, n)

C3_AllSuccess ==
    \A r \in Runs :
        pc[r] = "done" =>
            /\ response[r].status = 200
            /\ response[r].results = results[r]
            /\ response[r].success = ~(\E k \in Reported(r) : ~results[r][k].success)
            /\ response[r].error = NoStr

\* C3 witness: a run of two or more cities is done in which every city
\* failed; it answered 200 with success false and one entry per city.
C3_Witness ==
    \E r \in Runs :
        /\ pc[r] = "done" /\ Len(results[r]) >= 2
        /\ \A k \in Reported(r) : ~results[r][k].success
        /\ response[r].status = 200 /\ ~response[r].success
        /\ Len(response[r].results) = Len(cities[r])

(***************************************************************************)
(* Properties of the store under the sync.                                 *)
(***************************************************************************)
\* run r is in the batch loop and this step is its upsert
Upserts(r) == pc[r] = "batch" /\ sync'[r] # sync[r]

\* the statement of the upsert run r is about to make
Statement(r) == Batch(NormalizedData(City(r), sync[r].data), sync[r].i)

\* loop turn n of run r fetched its data and none of its upserts failed
Clean(r, n) ==
    /\ ops[r][n].fetch = "ok" /\ ~ops[r][n].raised
    /\ ops[r][n].failed = 0
    /\ n < Len(ops[r]) \/ pc[r] \in {"report", "source", "loop", "done"}

\* run r is syncing, for the second time in succession, the city of its
\* previous loop turn, from the same upstream data
SecondSync(r) ==
    /\ idx[r] >= 2 /\ idx[r] <= Len(cities[r])
    /\ cities[r][idx[r]] = cities[r][idx[r] - 1]
    /\ ops[r][idx[r] - 1].fetch = "ok" /\ ~ops[r][idx[r] - 1].raised

C5_Unique ==
    /\ Cardinality(Keys(lands)) = Cardinality(lands)
    /\ Cardinality({row.id : row \in lands}) = Cardinality(lands)

\* an upsert that the store accepted leaves, for each record of its
\* statement, one row under the record's key that holds the record's columns,
\* under the id of the row that held the key before if there was one; the rows
\* under other keys stay as they were
C5_Step ==
    \A r \in Runs :
        Upserts(r) /\ ops'[r][idx[r]].failed = ops[r][idx[r]].failed =>
            LET stmt == Statement(r)
                keys == StatementKeys(stmt)
                held == Keys(lands)
                touched == {row \in lands' : ConflictKey(row) \in keys}
                before == {row \in lands : ConflictKey(row) \in keys}
            IN /\ \A i \in 1..Len(stmt) :
                    \E row \in touched :
                        /\ ConflictKey(row) = ConflictKey(stmt[i])
                        /\ row = RowOf(row.id, stmt[i])
               /\ Cardinality(touched) = Cardinality(keys)
               /\ \A old \in before : \E row \in touched :
                    row.id = old.id /\ ConflictKey(row) = ConflictKey(old)
               /\ lands \ before = lands' \ touched
               /\ Cardinality(lands') = Cardinality(lands) + Cardinality(keys \ held)

\* C5: in every reachable state, runs interleaving on one city included, the
\* store holds at most one row per (source_city, district, land_number); an
\* upsert of a key that a row holds overwrites that row's columns and adds no
\* row.
C5_OneRowPerKey == []C5_Unique /\ [][C5_Step]_vars

\* C5 witness: the cron run and the admin run are both in the batch loop of
\* the same city, each has upserted its first batch, and the store holds one
\* row per key of that batch.
C5_Witness ==
    /\ pc["cron"] = "batch" /\ pc["admin"] = "batch"
    /\ cities["cron"][idx["cron"]] = cities["admin"][idx["admin"]]
    /\ sync["cron"].i = batchSize /\ sync["admin"].i = batchSize
    /\ sync["cron"].total = batchSize /\ sync["admin"].total = batchSize
    /\ Cardinality(lands) = batchSize

(***************************************************************************)
(* Properties of one city's sync.                                          *)
(***************************************************************************)
\* the loop turns of run r whose fetch returned a failure or no data
FetchFailed(r, n) == ops[r][n].fetch \in {"failed", "nodata"}

\* the row of sync_logs of a loop turn
LogOf(r, n) == CHOOSE row \in sync_logs : row.id = LogId(r, n)

\* C7: a city's data_sources row carries the stamp and count of a loop turn
\* only when that turn synced this city and its result is success=true; a
\* turn whose fetch failed issued no upsert, its result is success=false with
\* count 0 and the fetcher's error, and no data_sources row carries its
\* stamp.
C7_SourceAfterSuccess ==
    /\ \A c \in DOMAIN data_sources :
        LET at == data_sources[c].last_synced_at
        IN IF at = Never THEN data_sources[c] = SeedSource
           ELSE /\ at.n \in Reported(at.run)
                /\ cities[at.run][at.n] = c
                /\ results[at.run][at.n].success
                /\ data_sources[c].record_count = results[at.run][at.n].count
    /\ \A r \in Runs : \A n \in Turns(r) :
        FetchFailed(r, n) =>
            /\ ops[r][n].upserts = 0
            /\ \A c \in DOMAIN data_sources : data_sources[c].last_synced_at # LogId(r, n)
            /\ n \in Reported(r) =>
                /\ ~results[r][n].success
                /\ results[r][n].count = 0
                /\ results[r][n].error # NoStr /\ results[r][n].error # ""
                /\ results[r][n].error =
                       OrElse(ops[r][n].fetchError, "Failed to fetch data")

\* C7 witness: a run is done whose first city succeeded and stamped its
\* data_sources row, and whose later city failed its fetch and left its row
\* as seeded.
C7_Witness ==
    \E r \in Runs :
        /\ pc[r] = "done"
        /\ \E n, m \in Reported(r) :
            /\ n < m
            /\ results[r][n].success
            /\ data_sources[cities[r][n]].last_synced_at = LogId(r, n)
            /\ ops[r][m].fetch = "failed"
            /\ ops[r][m].requests >= 1
            /\ data_sources[cities[r][m]] = SeedSource

\* C8: a loop turn for a city that the switch does not know issues no fetch
\* request and no upsert; its result is success=false, count 0, error
\* 'Unknown city: <id>'; its sync_logs row ends 'failed' with that message;
\* the loop goes on to the next city of the list.
C8_UnknownCity ==
    \A r \in Runs : \A n \in Turns(r) :
        ~KnownCity(cities[r][n]) =>
            /\ ops[r][n].requests = 0
            /\ ops[r][n].upserts = 0
            /\ ops[r][n].fetch = "none"
            /\ cities[r][n] \notin DOMAIN data_sources
            /\ n \in Reported(r) =>
                /\ results[r][n] = Result(cities[r][n], FALSE, 0,
                                          "Unknown city: " \o cities[r][n])
                /\ LogOf(r, n).status = "failed"
                /\ LogOf(r, n).error_message = "Unknown city: " \o cities[r][n]
                /\ LogOf(r, n).records_added = 0
            /\ pc[r] = "done" /\ n < Len(cities[r]) =>
                /\ ops[r][n + 1].city = cities[r][n + 1]
                /\ KnownCity(cities[r][n + 1]) => ops[r][n + 1].requests >= 1

\* C8 witness: a run is done whose list has an unknown city in the middle;
\* that city's entry is the 'Unknown city' failure and the city after it was
\* fetched and succeeded.
C8_Witness ==
    \E r \in Runs :
        /\ pc[r] = "done"
        /\ \E n \in Reported(r) :
            /\ n > 1 /\ n < Len(cities[r])
            /\ ~KnownCity(cities[r][n])
            /\ results[r][n].error = "Unknown city: nowhere"
            /\ LogOf(r, n).status = "failed"
            /\ results[r][n + 1].success
            /\ ops[r][n + 1].requests >= 1

\* C9: after a successful fetch, the count a city reports, and the
\* records_added of its sync_logs row, is the sum of the rows returned by the
\* upserts that succeeded; a failed upsert adds nothing; the city is
\* success=true whenever at least one upsert succeeded.
C9_CountsWrittenRows ==
    \A r \in Runs : \A n \in Turns(r) :
        ops[r][n].fetch = "ok" =>
            /\ ops[r][n].failed <= ops[r][n].upserts
            /\ ops[r][n].rows <= (ops[r][n].upserts - ops[r][n].failed) * batchSize
            /\ n = idx[r] /\ pc[r] \in {"batch", "report", "source"} =>
                   sync[r].total = ops[r][n].rows
            /\ n \in Reported(r) =>
                /\ results[r][n].count = ops[r][n].rows
                /\ LogOf(r, n).records_added = ops[r][n].rows
                /\ ops[r][n].upserts > ops[r][n].failed =>
                    /\ results[r][n].success
                    /\ LogOf(r, n).status = "completed"

\* C9 witness: a reported city made two upserts of which one failed; it is
\* success=true and its count is the rows of the other upsert.
C9_Witness ==
    \E r \in Runs : \E n \in Reported(r) :
        /\ ops[r][n].fetch = "ok"
        /\ ops[r][n].upserts = 2 /\ ops[r][n].failed = 1
        /\ results[r][n].success
        /\ results[r][n].count = batchSize
        /\ LogOf(r, n).records_added = batchSize

(***************************************************************************)
(* The fetchers on their own: a call of fetchFromDataGov or                *)
(* fetchFromTaipei against each behaviour of the upstream.                 *)
(***************************************************************************)
\* pages a listing is given explicitly, before it repeats its last answer
MaxPages == 2

Thrower == {NetError, AbortError}

\* how a response may fail at the network, the status line or the decoder
Failures ==
    {[net |-> "throw", status |-> 0, decode |-> "ok", err |-> e] : e \in Thrower}
    \cup {[net |-> "ok", status |-> st, decode |-> "ok", err |-> NoError] :
             st \in {301, 404, 500}}
    \cup {[net |-> "ok", status |-> 200, decode |-> "throw", err |-> DecodeError]}

ResourceLists ==
    {<<>>,
     <<Resource("JSON", NoStr, "https://data.gov.tw/json")>>,
     <<Resource("JSON", NoStr, "https://data.gov.tw/json"),
       Resource("CSV", NoStr, DownloadUrl("52344"))>>,
     <<Resource(NoStr, "csv", DownloadUrl("52344"))>>,
     <<Resource("Csv", NoStr, NoStr), Resource("csv", NoStr, DownloadUrl("52344"))>>,
     <<Resource("csv", NoStr, "")>>}

Metas ==
    {MetaDoc(rs) : rs \in ResourceLists}
    \cup {[MetaDoc(<<>>) EXCEPT !.hasResources = FALSE]}
    \cup {[FailedMeta(f.net, f.status, f.decode) EXCEPT !.err = f.err] : f \in Failures}

Csvs ==
    {CsvDoc(t) : t \in {EmptyText, TableText("52344", 0), TableText("52344", GovSize)}}
    \cup {[FailedCsv(f.net, f.status, f.decode) EXCEPT !.err = f.err] : f \in Failures}

Pages ==
    {Page(n) : n \in {0, TaipeiSize, limit, SafetyLimit + 1}}
    \cup {[Page(0) EXCEPT !.hasResults = FALSE]}
    \cup {[FailedPage(f.net, f.status, f.decode) EXCEPT !.err = f.err] : f \in Failures}

PageSeqs == UNION {[1..n -> Pages] : n \in 0..MaxPages}

DataGovInputs ==
    {[fetcher |-> "DataGov", datasetId |-> "52344", up |-> [meta |-> m, csv |-> c]] :
        m \in Metas, c \in Csvs}

TaipeiInputs ==
    {[fetcher |-> "Taipei", datasetId |-> "134972", up |-> [first |-> ps, rest |-> p]] :
        ps \in PageSeqs, p \in {Page(0), Page(TaipeiSize), Page(limit)}}

InitFetch ==
    /\ lands = {}
    /\ sync_logs = {}
    /\ data_sources = [c \in {"taibei-shi", "jiayi-shi", "jiayi-xian", "zhanghua-xian"}
                          |-> SeedSource]
    /\ pc = [r \in Runs |-> "idle"]
    /\ req = [r \in Runs |-> NoRequest]
    /\ cities = [r \in Runs |-> <<>>]
    /\ idx = [r \in Runs |-> 1]
    /\ results = [r \in Runs |-> <<>>]
    /\ response = [r \in Runs |-> NoResponse]
    /\ sync = [r \in Runs |-> IdleSync]
    /\ ops = [r \in Runs |-> <<>>]
    /\ faults = 0
    /\ fin \in DataGovInputs \cup TaipeiInputs
    /\ fout = NoOutcome

\* await DataFetcher.fetchFromDataGov(datasetId)
CallDataGov ==
    /\ fin.fetcher = "DataGov" /\ ~fout.called
    /\ fout' = [called |-> TRUE, out |-> fetchFromDataGov(fin.datasetId, fin.up)]
    /\ UNCHANGED <<lands, sync_logs, data_sources, pc, req, cities, idx, results,
                   response, sync, ops, faults, fin>>

\* await DataFetcher.fetchFromTaipei(datasetId)
CallTaipei ==
    /\ fin.fetcher = "Taipei" /\ ~fout.called
    /\ fout' = [called |-> TRUE, out |-> fetchFromTaipei(fin.datasetId, fin.up)]
    /\ UNCHANGED <<lands, sync_logs, data_sources, pc, req, cities, idx, results,
                   response, sync, ops, faults, fin>>

NextFetch == CallDataGov \/ CallTaipei

SpecFetch == InitFetch /\ [][NextFetch]_vars

\* a response that does not come back as a decoded HTTP success
Bad(resp) == resp.net = "throw" \/ ~HttpOk(resp.status) \/ resp.decode = "throw"

\* the responses the call received, one per request it made
Received ==
    IF fin.fetcher = "DataGov"
    THEN {fin.up.meta} \cup (IF Len(fout.out.reqs) = 2 THEN {fin.up.csv} ELSE {})
    ELSE {PageResp(fin.up, k) : k \in 1..Len(fout.out.reqs)}

\* C10: neither fetcher throws; a call that received a non-success status, or
\* whose network call or decoder raised, returns success=false; every
\* success=false result carries a non-empty error; every success=true result
\* carries data and a record count.
C10_FetchersNeverThrow ==
    fout.called =>
        /\ ~fout.out.thrown
        /\ Len(fout.out.reqs) >= 1
        /\ (\E resp \in Received : Bad(resp)) => ~fout.out.res.success
        /\ ~fout.out.res.success =>
            /\ ~Falsy(fout.out.res.error)
            /\ fout.out.res.data = NoData
        /\ fout.out.res.success =>
            /\ fout.out.res.data # NoData
            /\ fout.out.res.recordCount # NoNum
            /\ fout.out.res.recordCount >= 0
            /\ fout.out.res.recordCount = fout.out.res.data.n

\* C10 witness: a call of fetchFromTaipei whose second request raised in the
\* network layer returned success=false with the Error as a string.
C10_Witness ==
    /\ fout.called /\ fin.fetcher = "Taipei"
    /\ Len(fout.out.reqs) = 2
    /\ PageResp(fin.up, 2).net = "throw"
    /\ ~fout.out.res.success
    /\ fout.out.res.error = "TypeError: fetch failed"

(***************************************************************************)
(* The orchestrator against a store client whose calls may reject: the     *)
(* awaited writes inside the try block of a loop turn, and the update of   *)
(* the catch block.                                                        *)
(***************************************************************************)
StoreError == [name |-> "Error", message |-> "store unreachable"]

\* the Error of a rejected write reaches the catch block of the loop turn
Rejected(r) ==
    /\ faults < MaxFaults
    /\ faults' = faults + 1
    /\ sync' = [sync EXCEPT ![r].error = ErrorMessage(StoreError)]
    /\ pc' = [pc EXCEPT ![r] = "catch"]

Raised(history) ==
    [history EXCEPT ![Len(history)].raised = TRUE,
                    ![Len(history)].exception = ErrorMessage(StoreError)]

\* a batch upsert rejects inside syncCityData
UpsertThrows(r) ==
    /\ pc[r] = "batch"
    /\ Rejected(r)
    /\ ops' = [ops EXCEPT ![r] =
                  Raised([@ EXCEPT ![Len(@)].upserts = @ + 1, ![Len(@)].failed = @ + 1])]
    /\ UNCHANGED <<lands, sync_logs, data_sources, req, cities, idx, results, response,
                   fin, fout>>

\* results.push(result), then the update of the log row rejects
ReportThrows(r) ==
    /\ pc[r] = "report"
    /\ Rejected(r)
    /\ results' = [results EXCEPT ![r] = push(@, sync[r].result)]
    /\ ops' = [ops EXCEPT ![r] = Raised(@)]
    /\ UNCHANGED <<lands, sync_logs, data_sources, req, cities, idx, response, fin, fout>>

\* the update of the city's data_sources row rejects
UpdateSourceThrows(r) ==
    /\ pc[r] = "source"
    /\ Rejected(r)
    /\ ops' = [ops EXCEPT ![r] = Raised(@)]
    /\ UNCHANGED <<lands, sync_logs, data_sources, req, cities, idx, results, response,
                   fin, fout>>

\* the catch block pushes its entry, its update of the log row rejects and the
\* Error reaches the catch of the handler (the failure that led into the catch
\* block is the one counted)
CatchThrows(r) ==
    /\ pc[r] = "catch"
    /\ UNCHANGED faults
    /\ results' = [results EXCEPT ![r] = push(@, Result(City(r), FALSE, 0, sync[r].error))]
    /\ response' = [response EXCEPT ![r] =
                       ErrorResponse(500, IF r = "cron" THEN "Sync failed"
                                          ELSE "Internal server error")]
    /\ pc' = [pc EXCEPT ![r] = "fatal"]
    /\ UNCHANGED <<lands, sync_logs, data_sources, req, cities, idx, sync, ops, fin, fout>>

NextThrow ==
    \/ Next
    \/ \E r \in Runs :
        \/ UpsertThrows(r)
        \/ ReportThrows(r)
        \/ UpdateSourceThrows(r)
        \/ CatchThrows(r)

SpecThrow == Init /\ [][NextThrow]_vars

\* loop turn n of run r is over
Finished(r, n) == n < Len(ops[r]) \/ pc[r] \in {"loop", "done", "fatal"}

\* C6: a loop turn in which an exception was thrown (by parse or normalize,
\* by a batch upsert, by the update of the log row or of the data source)
\* ends with one entry for its city, success=false with the exception's
\* message, and with its sync_logs row 'failed' with that message; no turn
\* has more than one entry; the run goes on and answers with its summary.
C6_ExceptionIsOneFailedEntry ==
    \A r \in Runs :
        /\ Len(results[r]) <= Len(ops[r])
        /\ pc[r] = "fatal" => Len(ops[r]) = 0
        /\ \A n \in Turns(r) :
            ops[r][n].raised /\ Finished(r, n) =>
                /\ n <= Len(results[r])
                /\ results[r][n] = Result(cities[r][n], FALSE, 0, ops[r][n].exception)
                /\ LogOf(r, n).status = "failed"
                /\ LogOf(r, n).error_message = ops[r][n].exception
                /\ LogOf(r, n).updates = 1

(***************************************************************************)
(* Properties of the page loop of fetchFromTaipei.                         *)
(***************************************************************************)
\* the records of the first n pages of the listing
RECURSIVE Total(_, _)
Total(up, n) == IF n = 0 THEN 0 ELSE Total(up, n - 1) + RecordsLength(PageResp(up, n))

\* the listing answers pages 1..N-1 with records and page N without, the
\* total under the cap
EmptyAt(up, N) ==
    /\ \A k \in 1..N : ~Bad(PageResp(up, k))
    /\ \A k \in 1..(N - 1) : RecordsLength(PageResp(up, k)) > 0
    /\ RecordsLength(PageResp(up, N)) = 0
    /\ Total(up, N) <= SafetyLimit

\* C11: when the listing answers pages 1..N-1 with records and page N with
\* none (the total under the cap), fetchFromTaipei makes exactly N page
\* requests and returns; whatever the listing answers, a listing that never
\* sends an empty page included, the call returns after at most
\* SafetyLimit + 1 requests.
C11_PageLoopTerminates ==
    fout.called /\ fin.fetcher = "Taipei" =>
        /\ Len(fout.out.reqs) >= 1
        /\ Len(fout.out.reqs) <= SafetyLimit + 1
        /\ \A N \in 1..(MaxPages + 1) : EmptyAt(fin.up, N) => Len(fout.out.reqs) = N
        /\ (\A k \in 1..(MaxPages + 1) : ~Bad(PageResp(fin.up, k))
                                         /\ RecordsLength(PageResp(fin.up, k)) = limit)
               => Len(fout.out.reqs) = SafetyLimit \div limit + 1

\* C11 witness: the listing sent two pages of records and then an empty page;
\* the call made three requests and returned the records of the two pages.
C11_Witness ==
    /\ fout.called /\ fin.fetcher = "Taipei"
    /\ EmptyAt(fin.up, 3)
    /\ Len(fout.out.reqs) = 3
    /\ fout.out.res.success
    /\ fout.out.res.recordCount = limit + TaipeiSize

\* C12: whatever the listing answers, the call requests the pages at offsets
\* 0, 1000, 2000, ... in increasing order, and the records it accumulates and
\* returns never exceed 100,000.
C12_OffsetsAndCap ==
    fout.called /\ fin.fetcher = "Taipei" =>
        /\ \A j \in 1..Len(fout.out.reqs) : fout.out.reqs[j] = (j - 1) * limit
        /\ fout.out.res.success => fout.out.res.recordCount <= SafetyLimit

(***************************************************************************)
(* Properties of the two triggers' gates.                                  *)
(***************************************************************************)
\* invocation r has done nothing to the store and asked nothing of upstream
NoWork(r) ==
    /\ ops[r] = <<>> /\ results[r] = <<>> /\ cities[r] = <<>>
    /\ \A row \in sync_logs : row.id.run # r
    /\ \A c \in DOMAIN data_sources : data_sources[c].last_synced_at.run # r

\* the cron request may run the pipeline
CronMayRun(q) == (q.secret /\ q.auth = "good") \/ (~q.secret /\ ~q.production)

C13_Gate ==
    /\ pc["cron"] = "loop" /\ idx["cron"] = 1 => CronMayRun(req["cron"])
    /\ pc["cron"] \in {"rejected", "fatal"} =>
        LET q == req["cron"]
        IN /\ NoWork("cron")
           /\ q.secret /\ q.auth # "good" =>
                  pc["cron"] = "rejected" /\ response["cron"].status = 401
           /\ ~q.secret /\ q.production =>
                  pc["cron"] = "rejected" /\ response["cron"].status = 500
           /\ pc["cron"] = "rejected" => ~CronMayRun(q)
    /\ pc["cron"] # "idle" /\ ~NoWork("cron") => pc["cron"] \notin {"rejected", "fatal"}

\* the step that takes the cron request enters the loop only when the request
\* may run, and a refused request takes no further step
C13_Step ==
    /\ pc["cron"] = "idle" /\ pc'["cron"] = "loop" => CronMayRun(req'["cron"])
    /\ pc["cron"] = "idle" /\ pc'["cron"] # "idle" /\ ~CronMayRun(req'["cron"]) =>
        /\ pc'["cron"] = "rejected"
        /\ response'["cron"].status = IF req'["cron"].secret THEN 401 ELSE 500
        /\ UNCHANGED <<lands, sync_logs, data_sources, ops>>
    /\ pc["cron"] = "rejected" => pc'["cron"] = "rejected" /\ ops'["cron"] = ops["cron"]

\* C13: the scheduled trigger runs the pipeline only if CRON_SECRET is set and
\* the Authorization header is 'Bearer <secret>', or CRON_SECRET is unset and
\* the deployment is not production; with a secret and a missing or wrong
\* token it answers 401, with no secret in production it answers 500, and in
\* both cases no sync runs.
C13_CronGate == []C13_Gate /\ [][C13_Step]_vars

\* C13 witness: a production deployment without a secret answered 500 to a
\* request and did nothing else.
C13_Witness ==
    /\ pc["cron"] = "rejected"
    /\ ~req["cron"].secret /\ req["cron"].production
    /\ response["cron"] = ErrorResponse(500, "Server misconfiguration: CRON_SECRET not set")
    /\ NoWork("cron")

\* the request of invocation r is refused: a wrong or missing token, no
\* secret in production, or no store credentials
Refused(r, q) ==
    \/ r = "cron" /\ ~CronMayRun(q)
    \/ r = "admin" /\ q.auth # "good"
    \/ ~q.configured

C14_Refused ==
    \A r \in Runs :
        /\ pc[r] \in {"rejected", "fatal"} =>
            /\ Refused(r, req[r])
            /\ NoWork(r)
            /\ response[r].status \in {401, 500}
            /\ response[r].results = <<>>
        /\ pc[r] = "loop" /\ idx[r] = 1 /\ ops[r] = <<>> => ~Refused(r, req[r])

\* the step that refuses a request changes no table and makes no request, and
\* the invocation takes no step after it
C14_Step ==
    \A r \in Runs :
        /\ pc[r] = "idle" /\ pc'[r] # "idle" /\ Refused(r, req'[r]) =>
            /\ pc'[r] \in {"rejected", "fatal"}
            /\ response'[r].status # 200
            /\ UNCHANGED <<lands, sync_logs, data_sources, ops, results>>
        /\ pc[r] \in {"rejected", "fatal"} =>
            pc'[r] = pc[r] /\ ops'[r] = ops[r] /\ response'[r] = response[r]

\* C14: an invocation of either trigger that is refused for authentication
\* (wrong or missing token) or configuration (no secret in production, no
\* store credentials) inserts no sync_logs row, makes no fetch, changes no
\* land or data_sources row, and answers with a status other than 200.
C14_RefusedDoesNothing == []C14_Refused /\ [][C14_Step]_vars

\* C14 witness: the admin trigger refused a request with a wrong token and
\* the cron trigger gave up for missing store credentials, while the tables
\* are as they were at the start.
C14_Witness ==
    /\ pc["admin"] = "rejected" /\ req["admin"].auth = "bad"
    /\ response["admin"].status = 401
    /\ pc["cron"] = "fatal" /\ ~req["cron"].configured
    /\ response["cron"].status = 500
    /\ lands = {} /\ sync_logs = {}
    /\ \A c \in DOMAIN data_sources : data_sources[c] = SeedSource

(***************************************************************************)
(* The parsers and the normalizer on their own: a parser's filter and map, *)
(* then normalizeData, against each payload of rows.                       *)
(***************************************************************************)
\* rows of a payload
MaxRows == 2

\* the city a parser writes into sourceCity
ParserCity(parser) ==
    CASE parser = "Taipei" -> "taibei-shi"
      [] parser = "Chiayi" -> "jiayi-shi"
      [] parser = "ChiayiCounty" -> "jiayi-xian"
      [] parser = "Changhua" -> "zhanghua-xian"

\* rows of one district: the owner-name columns, the land number and the
\* sub-section absent, empty or filled
KeyRows ==
    {[BlankRow EXCEPT !.ownerFull = o, !.owner = o, !.landNo = l, !.sub = u,
                      !.zone = "dong-qu", !.region = "dong-qu", !.town = "dong-qu"] :
        o \in {NoStr, "", "wang"}, l \in {NoStr, "", "10"}, u \in {NoStr, "7"}}
    \cup {[BlankRow EXCEPT !.name = "chen", !.town = "xi-qu"],
          [BlankRow EXCEPT !.ownerFull = "  ", !.owner = "  ", !.landNo = "10"]}

\* rows with a land number and an owner, one per text of the area column;
\* the second area column is read by the Chiayi parser alone
AreaRows ==
    {[BlankRow EXCEPT !.ownerFull = "wang", !.owner = "wang", !.landNo = "10",
                      !.zone = "dong-qu", !.region = "dong-qu", !.town = "dong-qu",
                      !.area = t] :
        t \in {NoChars, <<>>, <<"a", "b", "c">>, <<"0">>, <<"0", ".", "0", "0">>,
               <<"0", ".", "0", "1">>, <<"2">>, <<"3", "3", ".", "0", "6">>,
               <<"1", ",", "2", "3", "4", ".", "5">>, <<" ", "1", "2", "m">>,
               <<"-", "5">>}}
    \cup {[BlankRow EXCEPT !.owner = "wang", !.landNo = "11", !.area2 = <<"7", ".", "5">>],
          [BlankRow EXCEPT !.owner = "wang", !.landNo = "11", !.area = <<>>,
                           !.area2 = <<"7", ".", "5">>]}

\* a parser and the rows of a payload
ParseInputs ==
    {[parser |-> p, rows |-> rows] :
        p \in {"Taipei", "Chiayi", "ChiayiCounty", "Changhua"},
        rows \in UNION {[1..n -> KeyRows \cup AreaRows] : n \in 0..MaxRows}}

\* parser.parse on the rows Papa.parse read
ParseRows(parser, rows) ==
    CASE parser = "Taipei" -> TaipeiRows(rows)
      [] parser = "Chiayi" -> ChiayiRows(FALSE, rows)
      [] parser = "ChiayiCounty" -> ChiayiRows(TRUE, rows)
      [] parser = "Changhua" -> ChanghuaRows(rows)

NoParsed == [called |-> FALSE, raw |-> <<>>, out |-> <<>>]

InitParse ==
    /\ lands = {}
    /\ sync_logs = {}
    /\ data_sources = [c \in {"taibei-shi", "jiayi-shi", "jiayi-xian", "zhanghua-xian"}
                          |-> SeedSource]
    /\ pc = [r \in Runs |-> "idle"]
    /\ req = [r \in Runs |-> NoRequest]
    /\ cities = [r \in Runs |-> <<>>]
    /\ idx = [r \in Runs |-> 1]
    /\ results = [r \in Runs |-> <<>>]
    /\ response = [r \in Runs |-> NoResponse]
    /\ sync = [r \in Runs |-> IdleSync]
    /\ ops = [r \in Runs |-> <<>>]
    /\ faults = 0
    /\ fin \in ParseInputs
    /\ fout = NoParsed

\* normalizeData(parser.parse(csvData), city)
ParseAndNormalize ==
    /\ ~fout.called
    /\ LET raw == ParseRows(fin.parser, fin.rows)
       IN fout' = [called |-> TRUE, raw |-> raw,
                   out |-> normalizeData(raw, ParserCity(fin.parser))]
    /\ UNCHANGED <<lands, sync_logs, data_sources, pc, req, cities, idx, results,
                   response, sync, ops, faults, fin>>

SpecParse == InitParse /\ [][ParseAndNormalize]_vars

\* the row has an owner name in a column its parser reads
HasOwner(parser, row) ==
    IF parser \in {"Chiayi", "ChiayiCounty"} THEN ~Falsy(row.owner) \/ ~Falsy(row.name)
    ELSE ~Falsy(row.ownerFull)

HasLandNo(row) == ~Falsy(row.landNo)

\* the rows of the payload that the parser must keep, in order
Kept == SelectSeq(fin.rows, LAMBDA row : HasOwner(fin.parser, row) \/ HasLandNo(row))

\* C15: two distinct rows of one payload that both lack a land number come
\* out of the parser with distinct landNumber values.
C15_DistinctPlaceholders ==
    fout.called =>
        /\ Len(fout.raw) = Len(Kept)
        /\ \A i, j \in 1..Len(Kept) :
            i # j /\ ~HasLandNo(Kept[i]) /\ ~HasLandNo(Kept[j]) =>
                fout.raw[i].landNumber # fout.raw[j].landNumber

\* C15 for the Taipei and Changhua parsers, whose placeholder is the index
\* alone
C15_IndexPlaceholders ==
    fout.called /\ fin.parser \in {"Taipei", "Changhua"} =>
        /\ Len(fout.raw) = Len(Kept)
        /\ \A i, j \in 1..Len(Kept) :
            i # j /\ ~HasLandNo(Kept[i]) /\ ~HasLandNo(Kept[j]) =>
                fout.raw[i].landNumber # fout.raw[j].landNumber

\* C16: a parser drops the rows that have neither an owner name nor a land
\* number and keeps every other row, in order; a kept row with a land number
\* and no owner name leaves the normalizer with ownerName null and its
\* landNumber as the row gave it.
C16_RowFilter ==
    fout.called =>
        /\ Len(fout.raw) = Len(Kept)
        /\ Len(fout.out) = Len(Kept)
        /\ \A i \in 1..Len(Kept) :
            /\ HasLandNo(Kept[i]) => fout.out[i].landNumber = Kept[i].landNo
            /\ HasLandNo(Kept[i]) /\ ~HasOwner(fin.parser, Kept[i]) =>
                fout.out[i].ownerName = Null
            /\ fout.out[i].sourceCity = ParserCity(fin.parser)

\* C16 witness: of two rows, the one with neither owner name nor land number
\* was dropped and the one with a land number alone came out with ownerName
\* null.
C16_Witness ==
    /\ fout.called /\ Len(fin.rows) = 2
    /\ ~HasOwner(fin.parser, fin.rows[1]) /\ ~HasLandNo(fin.rows[1])
    /\ ~HasOwner(fin.parser, fin.rows[2]) /\ HasLandNo(fin.rows[2])
    /\ Len(fout.out) = 1
    /\ fout.out[1].ownerName = Null
    /\ fout.out[1].landNumber = "10"

\* the text of the area column a parser reads from the row
AreaText(parser, row) ==
    IF parser \in {"Chiayi", "ChiayiCounty"} /\ row.area \in {NoChars, <<>>} THEN row.area2
    ELSE row.area

\* texts that hold no number
NonNumeric == {NoChars, <<>>, <<"a", "b", "c">>}

\* C17: a row whose area text is absent or not a number has areaM2 and
\* areaPing null in the normalized record, and no normalized record has an
\* areaM2 or an areaPing of 0.
C17_NoZeroArea ==
    fout.called =>
        \A i \in 1..Len(Kept) :
            /\ AreaText(fin.parser, Kept[i]) \in NonNumeric =>
                fout.out[i].areaM2 = NullNum /\ fout.out[i].areaPing = NullNum
            /\ fout.out[i].areaM2 # Num(0)
            /\ fout.out[i].areaPing # Num(0)

\* C17 without the areaPing of a nonzero area: absent, non-numeric and zero
\* texts give null areas, and areaM2 is never 0
C17_AreaM2 ==
    fout.called =>
        \A i \in 1..Len(Kept) :
            /\ AreaText(fin.parser, Kept[i]) \in NonNumeric \cup {<<"0">>, <<"0", ".", "0", "0">>}
                => fout.out[i].areaM2 = NullNum /\ fout.out[i].areaPing = NullNum
            /\ fout.out[i].areaM2 # Num(0)
            /\ fout.out[i].areaM2.kind \in {"null", "number"}
            /\ fout.out[i].areaPing.kind \in {"null", "number"}
            /\ fout.out[i].areaM2.kind = "null" <=> fout.out[i].areaPing.kind = "null"

(***************************************************************************)
(* normalizeData on its own, against one raw record of any city.           *)
(***************************************************************************)
\* areas up to MaxArea thousandths of a square metre
MaxArea == 400

\* raw records: any city with any district, and a record of each area with
\* the areaPing its parser gave or none
RawInputs ==
    {RawLand(c, d, "10", "wang", Undefined) :
        c \in {"taibei-shi", "taibei-shi-t", "Taipei", "xinbei-shi", "NewTaipei",
               "jiayi-shi", "jiayi-xian", "zhanghua-xian", "gaoxiong-shi"},
        d \in {"daan-qu", "dong-qu", "lugang-zhen", "beigang-zhen", "unknown-district",
               "jiayi-shi" \o "dong-qu", "taibei-shi-t" \o "daan-qu",
               "xinbei-shi" \o "banqiao-qu", "zhanghua-xian" \o "beigang-zhen"}}
    \cup {RawLand("jiayi-shi", "dong-qu", "10", "wang", Num(a)) :
            a \in (0..MaxArea) \cup {150500}}
    \cup {[RawLand("jiayi-shi", "dong-qu", "10", "wang", Num(a)) EXCEPT !.areaPing = Undefined] :
            a \in (0..MaxArea) \cup {150500}}

InitNormalize ==
    /\ lands = {}
    /\ sync_logs = {}
    /\ data_sources = [c \in {"taibei-shi", "jiayi-shi", "jiayi-xian", "zhanghua-xian"}
                          |-> SeedSource]
    /\ pc = [r \in Runs |-> "idle"]
    /\ req = [r \in Runs |-> NoRequest]
    /\ cities = [r \in Runs |-> <<>>]
    /\ idx = [r \in Runs |-> 1]
    /\ results = [r \in Runs |-> <<>>]
    /\ response = [r \in Runs |-> NoResponse]
    /\ sync = [r \in Runs |-> IdleSync]
    /\ ops = [r \in Runs |-> <<>>]
    /\ faults = 0
    /\ fin \in RawInputs
    /\ fout = NoParsed

\* normalizeData(rawData, city) on the record and a second one after it
Normalize ==
    /\ ~fout.called
    /\ LET rawData == <<fin, RawLand("taibei-shi-t", "unknown-district", "unknown-1",
                                     NoStr, Undefined)>>
       IN fout' = [called |-> TRUE, raw |-> rawData,
                   out |-> normalizeData(rawData, fin.sourceCity)]
    /\ UNCHANGED <<lands, sync_logs, data_sources, pc, req, cities, idx, results,
                   response, sync, ops, faults, fin>>

SpecNormalize == InitNormalize /\ [][Normalize]_vars

\* C18: the areaPing of a normalized record, multiplied back by 3.30579, is
\* within 0.01 of the record's areaM2 (in units of 10^-7 square metres:
\* hundredths of a ping times 330579 against thousandths of a square metre
\* times 10000).
C18_RoundTrip ==
    fout.called /\ fout.out[1].areaM2.kind = "number" =>
        LET back == fout.out[1].areaPing.v * 330579
            a == fout.out[1].areaM2.v * 10000
        IN /\ fout.out[1].areaPing.kind = "number"
           /\ back - a <= 100000
           /\ a - back <= 100000

\* C18 with the tolerance the rounding to two decimals allows: half a
\* hundredth of a ping, 0.0165 square metres
C18_HalfHundredth ==
    fout.called /\ fout.out[1].areaM2.kind = "number" =>
        LET back == fout.out[1].areaPing.v * 330579
            a == fout.out[1].areaM2.v * 10000
        IN /\ fout.out[1].areaPing.kind = "number"
           /\ 2 * (back - a) <= 330579
           /\ 2 * (a - back) <= 330579

\* the cities of CITY_NAME_MAP
Recognized ==
    {"taibei-shi", "taibei-shi-t", "Taipei", "xinbei-shi", "NewTaipei", "jiayi-shi",
     "jiayi-xian", "zhanghua-xian"}

\* the district without the city name in front of it
Bare(d) ==
    CASE d = "jiayi-shi" \o "dong-qu" -> "dong-qu"
      [] d = "taibei-shi-t" \o "daan-qu" -> "daan-qu"
      [] d = "xinbei-shi" \o "banqiao-qu" -> "banqiao-qu"
      [] d = "zhanghua-xian" \o "beigang-zhen" -> "beigang-zhen"
      [] OTHER -> d

\* C19: for a recognized city the coordinates are the table entry of the
\* district if there is one, else the entry of the district without its
\* leading city name if there is one, else the city's center: never null.
C19_ResolutionOrder ==
    fout.called /\ fin.sourceCity \in Recognized =>
        LET got == fout.out[1].coordinates
            d == fin.district
        IN /\ d \in DOMAIN DISTRICT_COORDS => got = DISTRICT_COORDS[d]
           /\ d \notin DOMAIN DISTRICT_COORDS /\ Bare(d) \in DOMAIN DISTRICT_COORDS =>
                got = DISTRICT_COORDS[Bare(d)]
           /\ got.kind = "point"

\* C19 for the cities that have a center point
C19_CitiesWithCenter ==
    fout.called /\ fin.sourceCity \in Recognized \ {"xinbei-shi", "NewTaipei"} =>
        LET got == fout.out[1].coordinates
            d == fin.district
        IN /\ d \in DOMAIN DISTRICT_COORDS => got = DISTRICT_COORDS[d]
           /\ d \notin DOMAIN DISTRICT_COORDS /\ Bare(d) \in DOMAIN DISTRICT_COORDS =>
                got = DISTRICT_COORDS[Bare(d)]
           /\ got.kind = "point"
           /\ d \notin DOMAIN DISTRICT_COORDS /\ Bare(d) \notin DOMAIN DISTRICT_COORDS =>
                got \notin {DISTRICT_COORDS[x] : x \in DOMAIN DISTRICT_COORDS}

\* C20: a record whose city is not recognized has null coordinates,
\* whatever its district is.
C20_UnrecognizedCity ==
    fout.called /\ fin.sourceCity \notin Recognized =>
        fout.out[1].coordinates = NullPoint

(***************************************************************************)
(* Further properties of the orchestrator.                                 *)
(***************************************************************************)
\* C21: every record of an upsert issued while city C is synced has
\* source_city C, and the upsert creates or changes rows of C alone.
C21_Step ==
    \A r \in Runs :
        Upserts(r) =>
            /\ \A i \in 1..Len(Statement(r)) : Statement(r)[i].source_city = City(r)
            /\ \A row \in lands' \ lands : row.source_city = City(r)

C21_OwnCityRows == [][C21_Step]_vars

\* C22: the k-th upsert of a city carries records 100(k-1)+1 .. 100k of the
\* normalized data (fewer in the last), in order; a successful upsert leaves
\* one row per (source_city, district, land_number) of its batch; a batch
\* that failed is followed by the next one.
C22_Step ==
    \A r \in Runs :
        Upserts(r) =>
            LET nd == NormalizedData(City(r), sync[r].data)
                k == ops[r][Len(ops[r])].upserts
                len == IF Len(nd) - 100 * k < 100 THEN Len(nd) - 100 * k ELSE 100
                stmt == Statement(r)
            IN /\ len >= 1
               /\ stmt = [j \in 1..len |-> DbRecord(nd[100 * k + j])]
               /\ ops'[r][Len(ops[r])].upserts = k + 1
               /\ ops'[r][Len(ops[r])].failed = ops[r][Len(ops[r])].failed =>
                    /\ Keys(lands') = Keys(lands) \cup StatementKeys(stmt)
                    /\ Cardinality(lands') = Cardinality(Keys(lands'))
               /\ pc'[r] = IF 100 * (k + 1) < Len(nd) THEN "batch" ELSE "report"

\* C22: when the batch loop of a city is over, ceil(n / 100) upserts were
\* issued for its n normalized records, whether they failed or not.
C22_Count ==
    \A r \in Runs :
        pc[r] = "report" /\ ops[r][Len(ops[r])].fetch = "ok" =>
            ops[r][Len(ops[r])].upserts =
                (Len(NormalizedData(City(r), sync[r].data)) + 99) \div 100

C22_Batches == []C22_Count /\ [][C22_Step]_vars

\* C22 witness: a city of more than 100 records is through its batch loop,
\* its first upsert failed and its second was issued.
C22_Witness ==
    \E r \in Runs :
        /\ pc[r] = "report"
        /\ ops[r][Len(ops[r])].fetch = "ok"
        /\ Len(NormalizedData(City(r), sync[r].data)) > 100
        /\ ops[r][Len(ops[r])].upserts = 2
        /\ ops[r][Len(ops[r])].failed = 1
        /\ sync[r].total = Len(NormalizedData(City(r), sync[r].data)) - 100

\* C23: within a run, the log insert of the next city is issued only when
\* every earlier city has its result pushed, its log row updated and, on
\* success, its data source updated; a fetch is issued with the city's log
\* row inserted and no upsert yet; the k-th upsert is issued after k - 1
\* upserts returned and before the log update; the log update comes after
\* the last batch and the data source update after the log update.  A step
\* of the run issues requests to the upstream or to one table, never both.
C23_Step ==
    \A r \in Runs :
        LET t == Len(ops[r])
            insert == Len(ops'[r]) > t
            fetch == ~insert /\ t >= 1 /\ pc[r] = "sync" /\ pc'[r] # "sync"
            update == results'[r] # results[r]
            source == pc[r] = "source" /\ pc'[r] # "source"
        IN /\ insert =>
                /\ Len(results[r]) = t
                /\ \A n \in 1..t :
                    /\ LogOf(r, n).status # "running"
                    /\ results[r][n].success =>
                        data_sources[cities[r][n]].last_synced_at # Never
                /\ lands' = lands /\ data_sources' = data_sources
           /\ fetch =>
                /\ LogOf(r, t).status = "running"
                /\ Len(results[r]) = t - 1
                /\ ops[r][t].requests = 0 /\ ops[r][t].upserts = 0
                /\ lands' = lands /\ data_sources' = data_sources /\ sync_logs' = sync_logs
           /\ Upserts(r) =>
                /\ LogOf(r, t).status = "running"
                /\ ops[r][t].fetch = "ok"
                /\ Len(results[r]) = t - 1
                /\ sync[r].i = 100 * ops[r][t].upserts
                /\ ops'[r][t].upserts = ops[r][t].upserts + 1
                /\ data_sources' = data_sources /\ sync_logs' = sync_logs
           /\ update =>
                /\ Len(results[r]) = t - 1 /\ Len(results'[r]) = t
                /\ LogOf(r, t).status = "running"
                /\ pc[r] # "batch"
                /\ ops'[r] = ops[r]
                /\ lands' = lands /\ data_sources' = data_sources
           /\ source =>
                /\ Len(results[r]) = t
                /\ LogOf(r, t).status = "completed"
                /\ lands' = lands /\ sync_logs' = sync_logs
           /\ Cardinality({k \in {1, 2, 3, 4, 5} :
                              \/ k = 1 /\ insert
                              \/ k = 2 /\ fetch
                              \/ k = 3 /\ Upserts(r)
                              \/ k = 4 /\ update
                              \/ k = 5 /\ source}) <= 1

C23_OneAtATime == [][C23_Step]_vars

\* C23 witness: a run is in its second city, which has one upsert returned
\* and more to issue, after a first city that succeeded with two upserts and
\* whose data source was updated.
C23_Witness ==
    \E r \in Runs :
        /\ Len(ops[r]) = 2 /\ pc[r] = "batch"
        /\ ops[r][2].upserts = 1
        /\ ops[r][1].upserts = 2
        /\ results[r][1].success
        /\ data_sources[cities[r][1]].last_synced_at = LogId(r, 1)

\* C24: a city whose fetch succeeded and whose processing raised nothing is
\* reported success=true with the number of rows its upserts returned, 0
\* when every upsert failed; its log row is 'completed' with a null
\* error_message, and its data source row is overwritten with that count.
C24_Reported ==
    \A r \in Runs :
        \A n \in Reported(r) :
            ops[r][n].fetch = "ok" /\ ~ops[r][n].raised =>
                /\ results[r][n].success
                /\ results[r][n].count = ops[r][n].rows
                /\ ops[r][n].failed = ops[r][n].upserts => results[r][n].count = 0
                /\ LogOf(r, n).status = "completed"
                /\ LogOf(r, n).error_message = Null
                /\ LogOf(r, n).records_added = results[r][n].count

C24_Step ==
    \A r \in Runs :
        /\ results'[r] # results[r] /\ results'[r][Len(results'[r])].success =>
                pc'[r] = "source"
        /\ pc[r] = "source" /\ pc'[r] # "source" =>
                data_sources'[City(r)] =
                    [last_synced_at |-> LogId(r, idx[r]),
                     record_count |-> results[r][Len(results[r])].count]

C24_SuccessWhateverTheBatches == []C24_Reported /\ [][C24_Step]_vars

\* C24 witness: a city whose only upsert failed is reported success=true
\* with count 0, and its data source row, which the other run had set to a
\* positive count, now carries this turn's stamp and 0.
C24_Witness ==
    \E r \in Runs, n \in 1..4 :
        /\ n \in Reported(r)
        /\ ops[r][n].fetch = "ok" /\ ops[r][n].upserts >= 1
        /\ ops[r][n].failed = ops[r][n].upserts
        /\ results[r][n].success /\ results[r][n].count = 0
        /\ data_sources[cities[r][n]] = [last_synced_at |-> LogId(r, n), record_count |-> 0]
        /\ \E q \in Runs \ {r} :
            /\ pc[q] = "done"
            /\ \E m \in Reported(q) :
                results[q][m].city = cities[r][n] /\ results[q][m].count > 0

(***************************************************************************)
(* Further properties of the fetchers.                                     *)
(***************************************************************************)
\* the positions of the resources of the metadata document tagged csv, in
\* any case, in format or resourceFormat
Tagged ==
    IF Bad(fin.up.meta) \/ ~fin.up.meta.hasResources THEN {}
    ELSE {i \in 1..Len(fin.up.meta.resources) :
            \/ fin.up.meta.resources[i].format \in {"csv", "Csv", "CSV"}
            \/ fin.up.meta.resources[i].resourceFormat \in {"csv", "Csv", "CSV"}}

\* C25: fetchFromDataGov requests the metadata first; it makes a second
\* request only when the metadata request succeeded and a resource tagged
\* csv exists, and then to the URL of the first such resource; it fails
\* after one request when the metadata request failed or no resource is
\* tagged csv, and fails when the CSV request failed; it never makes more
\* than two requests.
C25_MetadataThenCsv ==
    fout.called /\ fin.fetcher = "DataGov" =>
        LET reqs == fout.out.reqs
            first == fin.up.meta.resources[CHOOSE i \in Tagged : \A j \in Tagged : i <= j]
        IN /\ Len(reqs) \in {1, 2}
           /\ reqs[1] = "https://data.gov.tw/api/v2/rest/dataset/" \o fin.datasetId
           /\ Len(reqs) = 2 =>
                /\ ~Bad(fin.up.meta)
                /\ Tagged # {}
                /\ reqs[2] = first.resourceDownloadUrl
           /\ Bad(fin.up.meta) \/ Tagged = {} =>
                Len(reqs) = 1 /\ ~fout.out.res.success
           /\ Tagged # {} /\ first.resourceDownloadUrl \notin {NoStr, ""} => Len(reqs) = 2
           /\ Len(reqs) = 2 /\ Bad(fin.up.csv) => ~fout.out.res.success
           /\ Len(reqs) = 2 /\ ~Bad(fin.up.csv) =>
                fout.out.res.success /\ fout.out.res.data = fin.up.csv.text

\* C25 witness: the metadata lists a JSON resource and then one tagged CSV
\* in capitals; the call made its second request to that resource's URL and
\* failed on the status of the CSV response.
C25_Witness ==
    /\ fout.called /\ fin.fetcher = "DataGov"
    /\ Len(fin.up.meta.resources) = 2
    /\ fin.up.meta.resources[2].format = "CSV"
    /\ fout.out.reqs = <<"https://data.gov.tw/api/v2/rest/dataset/52344",
                         "https://data.gov.tw/download/52344">>
    /\ fin.up.csv.status = 404
    /\ fout.out.res = FetchFail("Failed to fetch CSV: 404")

(***************************************************************************)
(* Further properties of the normalizer.                                   *)
(***************************************************************************)
\* p hundredths of a ping is x thousandths of a square metre divided by
\* 3.30579 and rounded to two decimals: p * 3.30579 is within half a
\* hundredth of a ping of x (in units of 10^-7 square metres)
IsRounded(p, x) == p * 330579 - x * 10000 \in -165289..165289

\* C26: a record with an areaM2 and no areaPing of its own gets the areaPing
\* areaM2 / 3.30579 rounded to two decimals, from the parser (the raw
\* record) and from the normalizer; with no areaM2 and no areaPing the
\* areaPing is null.
C26_PingFromM2 ==
    fout.called =>
        /\ fin.areaPing.kind = "number" => IsRounded(fin.areaPing.v, fin.areaM2.v)
        /\ fout.out[1].areaM2.kind = "number" =>
            /\ fout.out[1].areaM2 = fin.areaM2
            /\ fout.out[1].areaPing.kind = "number"
            /\ IsRounded(fout.out[1].areaPing.v, fin.areaM2.v)
        /\ fin.areaM2.kind # "number" /\ fin.areaPing.kind # "number" =>
            fout.out[1].areaPing = NullNum

\* C26 witness: 150.5 square metres without an areaPing came out of the
\* normalizer with areaPing 45.53, and the parser's record carries 45.53.
C26_Witness ==
    /\ fout.called
    /\ fin.areaM2 = Num(150500) /\ fin.areaPing = Undefined
    /\ fout.out[1].areaPing = Num(4553)
    /\ RawLand("jiayi-shi", "dong-qu", "10", "wang", Num(150500)).areaPing = Num(4553)

\* the canonical name of a city of the table, and any other name itself
Canonical(city) ==
    IF city \in {"taibei-shi", "taibei-shi-t", "Taipei"} THEN "taibei-shi"
    ELSE IF city \in {"xinbei-shi", "NewTaipei"} THEN "xinbei-shi"
    ELSE city

\* C27: the normalizer gives one record per raw record, in order, with the
\* district and the landNumber of the raw record and the canonical name of
\* its city, or the city's name as it is when the table does not list it;
\* a normalized name normalizes to itself.
C27_CityNames ==
    fout.called =>
        /\ Len(fout.out) = Len(fout.raw)
        /\ \A i \in 1..Len(fout.raw) :
            /\ fout.out[i].district = fout.raw[i].district
            /\ fout.out[i].landNumber = fout.raw[i].landNumber
            /\ fout.out[i].sourceCity = Canonical(fout.raw[i].sourceCity)
            /\ normalizeData(<<[fout.raw[i] EXCEPT !.sourceCity = fout.out[i].sourceCity]>>,
                             NoStr)[1].sourceCity = fout.out[i].sourceCity

\* C27 witness: a record of 'NewTaipei' came out under the canonical name
\* of that city, followed by the second record under the canonical name of
\* its own.
C27_Witness ==
    /\ fout.called
    /\ fin.sourceCity = "NewTaipei"
    /\ fout.out[1].sourceCity = "xinbei-shi"
    /\ fout.raw[2].sourceCity = "taibei-shi-t"
    /\ fout.out[2].sourceCity = "taibei-shi"
    /\ fout.out[2].landNumber = "unknown-1"

\* C28: a step of a run leaves every log row of the other run as it is: the
\* rows it inserts and the rows it changes carry its own id and belong to a
\* loop turn it has started.
C28_Step ==
    \A r \in Runs :
        pc'[r] # pc[r] \/ sync'[r] # sync[r] =>
            /\ \A row \in sync_logs : row.id.run # r => row \in sync_logs'
            /\ \A row \in sync_logs' \ sync_logs :
                /\ row.id.run = r
                /\ row.id.n \in 1..Len(ops'[r])
                /\ row.source_city = cities[r][row.id.n]

\* C28: a run that is over has one row per city of its list, each
\* 'completed' or 'failed'.
C28_Rows ==
    \A r \in Runs :
        pc[r] = "done" =>
            /\ Cardinality({row \in sync_logs : row.id.run = r}) = Len(cities[r])
            /\ \A row \in sync_logs :
                row.id.run = r => row.status \in {"completed", "failed"}

C28_OwnLogRows == []C28_Rows /\ [][C28_Step]_vars

\* C28 witness: the two runs overlap on a city: both are inside their loops,
\* the scheduled run's row of the city is 'completed' and the manual run's
\* row of the same city is still 'running'.
C28_Witness ==
    \E a, b \in sync_logs :
        /\ a.id.run = "cron" /\ b.id.run = "admin"
        /\ a.source_city = b.source_city
        /\ a.status = "completed" /\ b.status = "running"
        /\ pc["cron"] \in {"sync", "batch", "report", "source"}
        /\ pc["admin"] \in {"sync", "batch", "report"}

\* C29, the fetcher: against every listing, fetchFromTaipei returns success
\* only with at least one record, and when the first page is empty it
\* returns the failure 'No records found' after that one request.
C29_Fetcher ==
    \A i \in TaipeiInputs :
        LET out == fetchFromTaipei(i.datasetId, i.up)
            page == PageResp(i.up, 1)
        IN /\ out.res.success => out.res.recordCount >= 1
           /\ ~Bad(page) /\ (~page.hasResults \/ page.count = 0) =>
                /\ out.res = FetchFail("No records found")
                /\ out.reqs = <<0>>

\* C29: a loop turn whose fetch ended with 'No records found' made one
\* request and no upsert; its result is success=false with that error and
\* count 0, its log row is 'failed' with that message, and no data source
\* row carries its stamp.
C29_NoRecords ==
    /\ C29_Fetcher
    /\ \A r \in Runs :
        \A n \in Turns(r) :
            ops[r][n].fetchError = "No records found" =>
                /\ cities[r][n] = "taibei-shi"
                /\ ops[r][n].fetch = "failed"
                /\ ops[r][n].requests = 1
                /\ ops[r][n].upserts = 0
                /\ \A c \in DOMAIN data_sources :
                    data_sources[c].last_synced_at # LogId(r, n)
                /\ n \in Reported(r) =>
                    /\ results[r][n] = Result("taibei-shi", FALSE, 0, "No records found")
                    /\ LogOf(r, n).status = "failed"
                    /\ LogOf(r, n).error_message = "No records found"
                    /\ LogOf(r, n).records_added = 0

\* C29 witness: a run is over whose sync of Taipei found the listing empty:
\* the entry of Taipei is the failure 'No records found' and the data
\* source row of Taipei was never written.
C29_Witness ==
    \E r \in Runs :
        /\ pc[r] = "done"
        /\ 1 \in Reported(r)
        /\ ops[r][1].fetchError = "No records found"
        /\ results[r][1].error = "No records found"
        /\ ~response[r].success
        /\ data_sources["taibei-shi"] = SeedSource
        /\ lands # {}

(***************************************************************************)
(* Geocoder: batchGeocode over a list of addresses.  fin holds the call's  *)
(* arguments, fout the position of the loop, the Map of results, the calls *)
(* made to onProgress and the trace of requests, responses and waits.      *)
(***************************************************************************)
\* addresses in one batch
MaxAddresses == 3

\* a geocoder that takes every response for a match
geocodeUnguarded(address, city, resp) ==
    [url |-> (IF Falsy(city) THEN address ELSE city \o address) \o ", Taiwan",
     res |-> [kind |-> "result", lat |-> Num(25033), lng |-> Num(121565),
              displayName |-> "place", confidence |-> "high"]]

\* geocodeAddress(address, city) against an upstream that answers resp: the
\* query it sends and what it returns, null or the first match
geocodeAddress(address, city, resp) ==
    LET fullAddress == IF Falsy(city) THEN address ELSE city \o address
        null == [kind |-> "null", lat |-> NullNum, lng |-> NullNum,
                 displayName |-> Null, confidence |-> Null]
    IN [url |-> fullAddress \o ", Taiwan",
        res |-> IF resp.thrown THEN null
                ELSE IF ~HttpOk(resp.status) THEN null
                ELSE IF resp.bodyThrows THEN null
                ELSE IF Len(resp.results) = 0 THEN null
                ELSE LET result == resp.results[1]
                     IN [kind |-> "result",
                         lat |-> parseFloat(result.lat),
                         lng |-> parseFloat(result.lon),
                         displayName |-> result.display_name,
                         confidence |-> IF result.importance > 50 THEN "high"
                                        ELSE IF result.importance > 30 THEN "medium"
                                        ELSE "low"]]

\* a call batchGeocode(addresses, onProgress): lists of up to MaxAddresses
\* addresses, two of which make the same key; onProgress is absent, returns
\* or throws
InitGeocode ==
    /\ lands = {}
    /\ sync_logs = {}
    /\ data_sources = [c \in {"taibei-shi", "jiayi-shi", "jiayi-xian", "zhanghua-xian"}
                          |-> SeedSource]
    /\ pc = [r \in Runs |-> "idle"]
    /\ req = [r \in Runs |-> NoRequest]
    /\ cities = [r \in Runs |-> <<>>]
    /\ idx = [r \in Runs |-> 1]
    /\ results = [r \in Runs |-> <<>>]
    /\ response = [r \in Runs |-> NoResponse]
    /\ sync = [r \in Runs |-> IdleSync]
    /\ ops = [r \in Runs |-> <<>>]
    /\ faults = 0
    /\ \E n \in 0..MaxAddresses :
        \E addresses \in [1..n -> {[address |-> "zhongshan-lu", city |-> NoStr],
                                   [address |-> "daan-qu", city |-> "taibei-shi"],
                                   [address |-> "taibei-shi" \o "daan-qu", city |-> ""]}] :
            \E onProgress \in {"none", "returns", "throws"} :
                fin = [addresses |-> addresses, onProgress |-> onProgress]
    /\ fout = [i |-> 0, phase |-> "loop", results |-> <<>>, progress |-> <<>>,
               trace |-> <<>>]

\* the head of the loop: the next address is requested, or the Map is
\* returned when none is left
Iterate ==
    /\ fout.phase = "loop"
    /\ IF fout.i < Len(fin.addresses)
       THEN fout' = [fout EXCEPT !.phase = "fetch",
                                 !.trace = Append(@, [e |-> "request", i |-> fout.i])]
       ELSE fout' = [fout EXCEPT !.phase = "returned"]
    /\ UNCHANGED <<lands, sync_logs, data_sources, pc, req, cities, idx, results,
                   response, sync, ops, faults, fin>>

\* geocodeAddress settles: the fetch rejected, the status was an error, the
\* body was no JSON, the list was empty or there was a match.  The result is
\* set in the Map, onProgress is called, and the loop sleeps unless this was
\* the last address.
Settle ==
    /\ fout.phase = "fetch"
    /\ \E resp \in
          {[thrown |-> TRUE, status |-> 0, bodyThrows |-> FALSE, results |-> <<>>],
           [thrown |-> FALSE, status |-> 429, bodyThrows |-> FALSE, results |-> <<>>],
           [thrown |-> FALSE, status |-> 200, bodyThrows |-> TRUE, results |-> <<>>]}
          \cup
          {[thrown |-> FALSE, status |-> 200, bodyThrows |-> FALSE, results |-> rs] :
              rs \in {<<>>,
                      <<[lat |-> <<"2", "5", ".", "0", "3", "3">>,
                         lon |-> <<"1", "2", "1", ".", "5", "6", "5">>,
                         display_name |-> "place", importance |-> 60]>>,
                      <<[lat |-> <<"2", "3", ".", "4", "8">>,
                         lon |-> <<"1", "2", "0", ".", "4", "5">>,
                         display_name |-> "elsewhere", importance |-> 20]>>}} :
        LET a == fin.addresses[fout.i + 1]
            key == IF Falsy(a.city) THEN a.address ELSE a.city \o a.address
            out == geocodeAddress(a.address, a.city, resp)
            total == Len(fin.addresses)
        IN fout' = [i |-> IF fin.onProgress # "throws" /\ ~(fout.i < total - 1)
                          THEN fout.i + 1 ELSE fout.i,
                    phase |-> IF fin.onProgress = "throws" THEN "rejected"
                              ELSE IF fout.i < total - 1 THEN "sleep" ELSE "loop",
                    results |-> [k \in DOMAIN fout.results \cup {key} |->
                                    IF k = key THEN out.res ELSE fout.results[k]],
                    progress |-> IF fin.onProgress = "none" THEN fout.progress
                                 ELSE Append(fout.progress, <<fout.i + 1, total>>),
                    trace |-> Append(fout.trace, [e |-> "response", i |-> fout.i,
                                                  url |-> out.url, resp |-> resp])]
    /\ UNCHANGED <<lands, sync_logs, data_sources, pc, req, cities, idx, results,
                   response, sync, ops, faults, fin>>

\* the timer of 1000 ms fires and the loop goes on to the next address
Wake ==
    /\ fout.phase = "sleep"
    /\ fout' = [fout EXCEPT !.i = @ + 1, !.phase = "loop",
                            !.trace = Append(@, [e |-> "wait", ms |-> 1000])]
    /\ UNCHANGED <<lands, sync_logs, data_sources, pc, req, cities, idx, results,
                   response, sync, ops, faults, fin>>

SpecGeocode == InitGeocode /\ [][Iterate \/ Settle \/ Wake]_vars

(***************************************************************************)
(* Properties of the geocoder.                                             *)
(***************************************************************************)
\* the events of one kind in the trace
Events(kind) == {k \in 1..Len(fout.trace) : fout.trace[k].e = kind}

\* a response that geocodeAddress takes for a failure
FailedRequest(resp) ==
    resp.thrown \/ ~HttpOk(resp.status) \/ resp.bodyThrows \/ resp.results = <<>>

\* the key of the k-th address of the batch
KeyOf(k) ==
    IF Falsy(fin.addresses[k].city) THEN fin.addresses[k].address
    ELSE fin.addresses[k].city \o fin.addresses[k].address

\* C30, in every state: the trace is request 0, response 0, wait, request 1,
\* response 1, wait, ... in input order, each response answering the query
\* of its address and each wait lasting 1000 ms, so at most one request is
\* in flight; progress is (1, n), (2, n), ... for the responses so far when a
\* callback was given; and once the Map is returned there were n requests,
\* n responses and, for n >= 1, n - 1 waits, none after the last response.
C30_Sequence ==
    LET n == Len(fin.addresses)
        t == fout.trace
    IN /\ \A k \in 1..Len(t) :
            /\ k % 3 = 1 => t[k] = [e |-> "request", i |-> (k - 1) \div 3]
            /\ k % 3 = 2 => /\ t[k].e = "response"
                            /\ t[k].i = (k - 1) \div 3
                            /\ t[k].url = KeyOf(t[k].i + 1) \o ", Taiwan"
            /\ k % 3 = 0 => t[k] = [e |-> "wait", ms |-> 1000]
       /\ Cardinality(Events("request")) - Cardinality(Events("response")) \in {0, 1}
       /\ Cardinality(Events("request")) <= n
       /\ fin.onProgress # "none" =>
            fout.progress = [k \in 1..Cardinality(Events("response")) |-> <<k, n>>]
       /\ fout.phase = "returned" =>
            /\ Cardinality(Events("request")) = n
            /\ Cardinality(Events("response")) = n
            /\ n >= 1 => Cardinality(Events("wait")) = n - 1
            /\ n >= 1 => t[Len(t)].e = "response"
            /\ fin.onProgress # "none" => Len(fout.progress) = n
            /\ DOMAIN fout.results = {KeyOf(k) : k \in 1..n}

\* C30, in every step that a failed request settles: the Map gets a null
\* entry under the key of that address, and the batch goes on (to the sleep,
\* or to the head of the loop after the last address) unless the callback
\* threw.
C30_Step ==
    LET t == fout'.trace
    IN Len(t) = Len(fout.trace) + 1 /\ t[Len(t)].e = "response"
       /\ FailedRequest(t[Len(t)].resp) =>
            /\ fout'.results[KeyOf(t[Len(t)].i + 1)].kind = "null"
            /\ fin.onProgress # "throws" =>
                fout'.phase = (IF t[Len(t)].i < Len(fin.addresses) - 1
                               THEN "sleep" ELSE "loop")

\* C30: batchGeocode issues its requests one after another in input order,
\* each after the previous response and a wait of one second, with n - 1
\* waits for n addresses, progress 1, 2, ..., n, and a null entry for a
\* failed request without stopping the batch.
C30_OneAfterAnother == []C30_Sequence /\ [][C30_Step]_vars

\* C30 witness: a batch of MaxAddresses addresses with a callback has
\* returned; its first request failed, its last one found a match, there
\* were MaxAddresses - 1 waits and the progress ended at MaxAddresses.
C30_Witness ==
    /\ fout.phase = "returned"
    /\ Len(fin.addresses) = MaxAddresses
    /\ fin.onProgress = "returns"
    /\ FailedRequest(fout.trace[2].resp)
    /\ ~FailedRequest(fout.trace[Len(fout.trace)].resp)
    /\ Cardinality(Events("wait")) = MaxAddresses - 1
    /\ fout.progress[MaxAddresses] = <<MaxAddresses, MaxAddresses>>
    /\ \E k \in DOMAIN fout.results : fout.results[k].kind = "null"

====
